---------------------------- MODULE Spec2Model ----------------------------
(***************************************************************************)
(* A model of the scraping-airbnb crawl pipeline.                          *)
(*                                                                         *)
(*   SpecRetry  the Retry Executor alone: retryWithBackoff of              *)
(*              scraper/airbnb/chromedp_scraper.go (72-110), whose copy in *)
(*              service/scraper_service.go (68-107) is the same loop.      *)
(*   Spec       ChromedpScraper.Scrape: Stage A (extractLocationLinks),    *)
(*              Stage B (extractAllCardLinksConcurrent) and Stage C        *)
(*              (extractProductsWorkerPool), one goroutine per process.    *)
(*   SpecFair   Spec under the fairness of the Go scheduler.                *)
(*   SpecRun    ScraperService.Run: the retries around Scrape and Save.     *)
(*   SpecSave   PostgresRepository.Save on the table properties.            *)
(*   SpecExtract  the record extractProperty builds from a page's texts.    *)
(*   SpecPace   applyRateLimit, randomDelay and the navigations of the      *)
(*              goroutines of one stage.                                    *)
(*   SpecDelay  randomDelay alone.                                          *)
(*                                                                         *)
(* Time is untimed except for the backoff durations, which are counted in  *)
(* whole minutes so that the int64 range of time.Duration (nanoseconds)    *)
(* fits the model checker's integers.                                      *)
(***************************************************************************)
EXTENDS Integers, Sequences, FiniteSets

(***************************************************************************)
(* Bounds of the model.                                                    *)
(***************************************************************************)
\* SpecRetry: the largest Retry.MaxRetries, InitialBackoff and MaxBackoff
MaxRetriesBound == 29
MaxInitialBackoff == 2
MaxMaxBackoff == 3
\* Spec: the most location links Stage A finds, the largest worker counts,
\* the largest Scraper.CardsPage1 and Retry.MaxRetries
MaxSeeds == 2
MaxLocationWorkers == 1
MaxProductWorkers == 2
MaxCards == 2
MaxPipelineRetries == 1
\* SpecSave: the most distinct URLs and the longest batch given to Save
MaxSaveURLs == 2
MaxBatch == 2
\* SpecExtract: the longest price or rating text read from a page
MaxTextLen == 2
\* SpecPace: goroutines of a stage, ticks of the limiter's ticker
MaxCallers == 2
MaxTicks == 4
\* SpecDelay: the bounds of the delay window, in units of 1/UnitsPerMs ms
MaxWindow == 6

(***************************************************************************)
(* Program constants.                                                      *)
(***************************************************************************)
\* math.MaxInt64 nanoseconds, the largest time.Duration, in whole minutes
MaxDuration == 153722867
\* math.MinInt64 nanoseconds (rounded to minutes), the smallest time.Duration
MinDuration == 0 - MaxDuration
\* `sem := make(chan struct{}, 3)`
SemCap == 3

VARIABLES
    cfg,        \* *config.Config: the fields the modelled code reads
    \* ---- one call of retryWithBackoff(ctx, fn) ----
    rpc,        \* where the call is: "loop", "fn", "backoff", "returned"
    attempt,    \* the loop variable
    calls,      \* how many times fn has been invoked
    lastErr,    \* lastErr: 0 is nil, k > 0 the error returned by fn's k-th call
    backoffs,   \* the durations handed to time.After, in order
    sel,        \* the select of a backoff: "none" (parked), "timer", "done"
    ctxDone,    \* ctx.Done() is closed
    ret,        \* the value returned
    cancelAt,   \* where the call was when ctx was cancelled (history)
    \* ---- Scrape: the main goroutine ----
    mpc,        \* where Scrape is
    aAttempt,   \* Stage A: the attempt of its runWithRetry
    aNavs,      \* history: the navigations of the landing page in this Run,
                \* [failed, ok], over every call of Scrape
    aErr,       \* Stage A: the error of runWithRetry ("none" until it returns)
    rawJSON,    \* Stage A: what the page returned for locationLinksJS
    locations,  \* locationLinks
    scrapeRet,  \* what Scrape returned: "none", "ok", "err"
    products,   \* the records Scrape returns
    \* ---- Stage B: one goroutine per location ----
    spc,        \* where the goroutine of each location is
    sPage,      \* the result page it is on (1 or 2)
    sAttempt,   \* the attempt of that page's runWithRetry
    sLinks,     \* the links of its pages so far (page1, then page1 ++ page2)
    sFailed,    \* the pages whose runWithRetry returned an error (history)
    sem,        \* the number of tokens in the channel sem
    allLinks,   \* allLinks
    \* ---- Stage C: the worker pool ----
    jobs,       \* the channel jobs
    jobsClosed, \* close(jobs) was called
    results,    \* the channel results
    wpc,        \* where each worker is
    wJob,       \* the job it took from the channel
    wAttempt,   \* the attempt of its runWithRetry
    wExpired,   \* the deadline of its tabCtx has passed
    wErr,       \* extractProperty's error
    taken,      \* how many times each queued link was received (history)
    outcome,    \* how the extraction of each queued link ended (history)
    \* ---- browser sessions ----
    tabA,       \* Stage A's tab is open
    tabB,       \* the tab of each location's goroutine is open
    tabC,       \* the browser context of each worker is open
    nCreated,   \* sessions created so far (history)
    nReleased,  \* sessions released so far (history)
    \* ---- ScraperService.Run ----
    run,        \* where Run is: "scrape", "save", "returned"
    runAttempt, \* the attempt of the retry loop around Scrape
    scrapeCalls,\* how many times Scrape has been called (history)
    property,   \* the records Scrape returned to Run
    saveAttempt,\* the attempt of the retry loop around repo.Save
    saveCalls,  \* how many times repo.Save has been called (history)
    saved,      \* the batches repo.Save has committed, in order (history)
    runRet,     \* what Run returned
    \* ---- PostgresRepository.Save ----
    table,      \* the rows of the table properties, in insertion order
    tpc,        \* where Save is: "idle", "prepare", "exec", "commit", "returned"
    batch,      \* the argument properties
    idx,        \* the position of the range loop in the batch
    tx,         \* the rows as the open transaction sees them
    saveErr,    \* what Save returned ("nil" or the error's prefix)
    before,     \* the rows when Save was called (history)
    repeated,   \* this call repeats the batch of the successful call before it (history)
    \* ---- extractProperty: the page read and the record built ----
    epc,        \* "page" (the actions are about to run), "returned"
    eURL,       \* the argument url
    pageTexts,  \* what the page's elements hold: the five texts
    eRet,       \* what extractProperty returned: the record and the error
    \* ---- the rate limiter, the stealth hooks and the navigations of the
    \*      goroutines of one stage ----
    stage,      \* the stage whose goroutines run: "A", "B", "C" ("none": not modelled)
    callers,    \* how many goroutines the stage has
    gpc,        \* where each goroutine is in its page visit
    gPage,      \* Stage B: the result page (1 or 2)
    gAttempt,   \* the attempt of the goroutine's runWithRetry
    gTimer,     \* the sleep or backoff timer of the goroutine has fired
    gErr,       \* the error of runWithRetry ("none" until it returns)
    consults,   \* calls of applyRateLimit that returned, per goroutine (history)
    delays,     \* calls of randomDelay that returned, per goroutine (history)
    navs,       \* chromedp.Navigate actions issued, per goroutine (history)
    navUA,      \* the user agent of the goroutine's last navigation (0: none yet)
    lookups,    \* calls of findNextPageURL, per goroutine (history)
    lookupErr,  \* the chromedp.Run of findNextPageURL returned an error (history)
    uaPicks,    \* calls of getRandomUserAgent (history)
    requestMutex, \* the goroutine holding s.requestMutex (0: unlocked)
    tickC,      \* ticks waiting in the channel rateLimiter.C (its buffer holds 1)
    slots,      \* ticks the ticker has produced (history)
    admitted,   \* receives from rateLimiter.C that completed (history)
    cancelled,  \* the parent context of the allocator is cancelled
    \* ---- one call of randomDelay ----
    dpc,        \* "idle", "call", "returned"
    dSlept      \* the durations handed to time.Sleep, in order

retryVars == <<rpc, attempt, calls, lastErr, backoffs, sel, ctxDone, ret, cancelAt>>
mainVars == <<mpc, aAttempt, aNavs, aErr, rawJSON, locations, scrapeRet,
              products>>
seedVars == <<spc, sPage, sAttempt, sLinks, sFailed, sem, allLinks>>
poolVars == <<jobs, jobsClosed, results, wpc, wJob, wAttempt, wExpired, wErr,
              taken, outcome>>
tabVars == <<tabA, tabB, tabC, nCreated, nReleased>>
pipeVars == <<mainVars, seedVars, poolVars, tabVars>>
svcVars == <<run, runAttempt, scrapeCalls, property, saveAttempt, saveCalls, saved, runRet>>
repoVars == <<table, tpc, batch, idx, tx, saveErr, before, repeated>>
extractVars == <<epc, eURL, pageTexts, eRet>>
limiterVars == <<requestMutex, tickC, slots, admitted>>
paceVars == <<stage, callers, gpc, gPage, gAttempt, gTimer, gErr, consults, delays,
              navs, navUA, lookups, lookupErr, uaPicks, limiterVars, cancelled>>
delayVars == <<dpc, dSlept>>
vars == <<cfg, retryVars, pipeVars, svcVars, repoVars, extractVars, paceVars, delayVars>>

Min(a, b) == IF a <= b THEN a ELSE b

(***************************************************************************)
(* retryWithBackoff                                                        *)
(***************************************************************************)
\* float64(initialBackoff) * math.Pow(2, float64(attempt)): exact while it is
\* in the int64 range; any larger value is kept as "more than MaxDuration".
RECURSIVE FloatBackoff(_, _)
FloatBackoff(b, i) ==
    IF i = 0 THEN b
    ELSE LET p == FloatBackoff(b, i - 1)
         IN  IF p > MaxDuration THEN p ELSE 2 * p

\* time.Duration(f): the float64 to int64 conversion. Out of range the result
\* is implementation-dependent (Go spec, Conversions): math.MinInt64 on amd64,
\* a saturated math.MaxInt64 on arm64.
DurationOf(f) ==
    IF f > MaxDuration THEN {MinDuration, MaxDuration} ELSE {f}

\* `if backoff > maxBackoff { backoff = maxBackoff }`
CapBackoff(d, m) == IF d > m THEN m ELSE d

\* The durations `backoff` can hold at the select, for a failed attempt i.
Backoff(c, i) ==
    {CapBackoff(d, c.MaxBackoff) : d \in DurationOf(FloatBackoff(c.InitialBackoff, i))}

\* A loop that stops one attempt early.
LoopCondOffByOne(c, i) == i < c.MaxRetries

\* `attempt <= maxRetries`, the loop condition
LoopCond(c, i) == i <= c.MaxRetries

\* A backoff guard that also sleeps after the final permitted attempt.
RetryLeftInclusive(c, i) == i <= c.MaxRetries

\* `attempt < maxRetries`, the guard of the backoff
RetryLeft(c, i) == i < c.MaxRetries

\* A wait that is a plain sleep: no ctx.Done() case.
DoneCaseMissing(done) == FALSE

\* `case <-ctx.Done()` of the select can proceed
DoneCase(done) == done

\* `case <-time.After(backoff)` can proceed when the select is entered: never
\* for a positive duration; a duration <= 0 has elapsed already, and whether
\* its channel is ready depends on the runtime's timer.
TimerCaseAtEntry(d) == IF d > 0 THEN {FALSE} ELSE {FALSE, TRUE}

\* A select that always takes the timer case, whatever ctx.Done() says.
SelectAtEntryTimerOnly(d, done) == {"timer"}

\* The select when it is entered: a case that can proceed is chosen (any of
\* them when both can), otherwise the goroutine parks ("none").
SelectAtEntry(d, done) ==
    LET ready(t) == (IF t THEN {"timer"} ELSE {}) \cup
                    (IF DoneCase(done) THEN {"done"} ELSE {})
    IN  UNION {IF ready(t) = {} THEN {"none"} ELSE ready(t) : t \in TimerCaseAtEntry(d)}

NoReturn == [kind |-> "none", err |-> 0, attempts |-> 0]
NotCancelled == [pc |-> "none", sel |-> "none", attempt |-> 0, calls |-> 0]

RetryInit ==
    /\ rpc = "loop"
    /\ attempt = 0
    /\ calls = 0
    /\ lastErr = 0
    /\ backoffs = <<>>
    /\ sel = "none"
    /\ ctxDone = FALSE
    /\ ret = NoReturn
    /\ cancelAt = NotCancelled

\* Line 78 and 83: the loop condition holds and fn is called.
CallFn ==
    /\ rpc = "loop"
    /\ LoopCond(cfg.Retry, attempt)
    /\ rpc' = "fn"
    /\ calls' = calls + 1
    /\ UNCHANGED <<cfg, svcVars, repoVars, extractVars, paceVars, delayVars,
                 pipeVars, attempt, lastErr, backoffs, sel, ctxDone, ret, cancelAt>>

\* Lines 83-87: fn returned nil.
FnSucceeds ==
    /\ rpc = "fn"
    /\ rpc' = "returned"
    /\ ret' = [kind |-> "ok", err |-> 0, attempts |-> calls]
    /\ UNCHANGED <<cfg, svcVars, repoVars, extractVars, paceVars, delayVars,
                 pipeVars, attempt, calls, lastErr, backoffs, sel, ctxDone, cancelAt>>

\* Lines 88-105: fn returned an error; with retries left the backoff is
\* computed and the select entered, otherwise attempt++ ends the iteration.
FnFails ==
    /\ rpc = "fn"
    /\ lastErr' = calls
    /\ IF RetryLeft(cfg.Retry, attempt)
       THEN \E d \in Backoff(cfg.Retry, attempt) :
              /\ backoffs' = Append(backoffs, d)
              /\ sel' \in SelectAtEntry(d, ctxDone)
              /\ rpc' = "backoff"
              /\ UNCHANGED attempt
       ELSE /\ attempt' = attempt + 1
            /\ rpc' = "loop"
            /\ UNCHANGED <<backoffs, sel>>
    /\ UNCHANGED <<cfg, svcVars, repoVars, extractVars, paceVars, delayVars,
                 pipeVars, calls, ctxDone, ret, cancelAt>>

\* Line 100: the timer of a parked select fires.
TimerFires ==
    /\ rpc = "backoff"
    /\ sel = "none"
    /\ sel' = "timer"
    /\ UNCHANGED <<cfg, svcVars, repoVars, extractVars, paceVars, delayVars,
                 pipeVars, rpc, attempt, calls, lastErr, backoffs, ctxDone, ret, cancelAt>>

\* A parked select that a closing ctx.Done() does not wake.
SelectOnCancelIgnored(s, done) == s

\* The select of a parked goroutine is resolved by the first case that becomes
\* ready: closing ctx.Done() wakes it with that case.
SelectOnCancel(s, done) == IF s = "none" /\ DoneCase(done) THEN "done" ELSE s

\* The context is cancelled (by its owner, at any time).
Cancel ==
    /\ ~ctxDone
    /\ rpc # "returned"
    /\ ctxDone' = TRUE
    /\ cancelAt' = [pc |-> rpc, sel |-> sel, attempt |-> attempt, calls |-> calls]
    /\ sel' = IF rpc = "backoff" THEN SelectOnCancel(sel, TRUE) ELSE sel
    /\ UNCHANGED <<cfg, svcVars, repoVars, extractVars, paceVars, delayVars,
                 pipeVars, rpc, attempt, calls, lastErr, backoffs, ret>>

\* Lines 100-101: the timer case was chosen; attempt++ and back to the loop.
BackoffElapsed ==
    /\ rpc = "backoff"
    /\ sel = "timer"
    /\ attempt' = attempt + 1
    /\ rpc' = "loop"
    /\ sel' = "none"
    /\ UNCHANGED <<cfg, svcVars, repoVars, extractVars, paceVars, delayVars,
                 pipeVars, calls, lastErr, backoffs, ctxDone, ret, cancelAt>>

\* A ctx.Done() case that breaks out of the loop instead of returning.
BackoffCancelledBreaks ==
    /\ rpc = "backoff"
    /\ sel = "done"
    /\ rpc' = "returned"
    /\ ret' = [kind |-> "exhausted", err |-> lastErr, attempts |-> cfg.Retry.MaxRetries + 1]
    /\ UNCHANGED <<cfg, svcVars, repoVars, extractVars, paceVars, delayVars,
                 pipeVars, attempt, calls, lastErr, backoffs, sel, ctxDone, cancelAt>>

\* Lines 102-103: the ctx.Done() case was chosen; return ctx.Err().
BackoffCancelled ==
    /\ rpc = "backoff"
    /\ sel = "done"
    /\ rpc' = "returned"
    /\ ret' = [kind |-> "cancelled", err |-> 0, attempts |-> calls]
    /\ UNCHANGED <<cfg, svcVars, repoVars, extractVars, paceVars, delayVars,
                 pipeVars, attempt, calls, lastErr, backoffs, sel, ctxDone, cancelAt>>

\* Lines 108-109: the loop is over; the error wraps lastErr and reports
\* maxRetries+1 attempts.
ReturnExhausted ==
    /\ rpc = "loop"
    /\ ~LoopCond(cfg.Retry, attempt)
    /\ rpc' = "returned"
    /\ ret' = [kind |-> "exhausted", err |-> lastErr, attempts |-> cfg.Retry.MaxRetries + 1]
    /\ UNCHANGED <<cfg, svcVars, repoVars, extractVars, paceVars, delayVars,
                 pipeVars, attempt, calls, lastErr, backoffs, sel, ctxDone, cancelAt>>

(***************************************************************************)
(* The site: what the browser finds on the pages. Locations are numbered   *)
(* 1, 2, ...; listings (item URLs) are numbers too.                        *)
(***************************************************************************)
\* The hrefs of `.cy5jw6o > a` on result page `page` of location `loc`:
\* listing 2 is found from location 1 (page 2) and from location 2.
Cards(loc, page) ==
    IF page = 1 THEN <<loc>>
    ELSE IF loc = 1 THEN <<2, 3>> ELSE <<>>

\* cardLinksJS(limit): the first `limit` hrefs.
CardLinksJS(cards, limit) == SubSeq(cards, 1, Min(limit, Len(cards)))

\* What locationLinksJS evaluates to: a JSON list of n location links, or
\* text that json.Unmarshal rejects.
PageJSON ==
    {[valid |-> TRUE, links |-> [k \in 1..n |-> k]] : n \in 0..MaxSeeds}
        \cup {[valid |-> FALSE, links |-> <<>>]}

\* models.Property as extractProperty builds it
Property(url) == [Platform |-> "Airbnb", URL |-> url]

NoJob == [i |-> 0, url |-> 0]

(***************************************************************************)
(* Scrape, Stage A: extractLocationLinks                                   *)
(***************************************************************************)
\* Lines 265-266: scraper.NewTab.
NewTabA ==
    /\ mpc = "A_newtab"
    /\ tabA' = TRUE
    /\ nCreated' = nCreated + 1
    /\ mpc' = "A_run"
    /\ UNCHANGED <<cfg, svcVars, repoVars, extractVars, paceVars, delayVars,
                 retryVars, seedVars, poolVars, aAttempt, aNavs, aErr, rawJSON,
                   locations, scrapeRet, products, tabB, tabC, nReleased>>

\* Lines 270-276: one attempt of runWithRetry (navigate, wait, scroll,
\* evaluate). The tab's context is never cancelled while the function runs, so
\* a backoff always elapses: it is part of the failed attempt's step.
AttemptA ==
    /\ mpc = "A_run"
    /\ \/ \E js \in PageJSON :
            /\ rawJSON' = js
            /\ aErr' = "nil"
            /\ mpc' = "A_ret"
            /\ aNavs' = [aNavs EXCEPT !.ok = @ + 1]
            /\ UNCHANGED aAttempt
       \/ /\ aNavs' = [aNavs EXCEPT !.failed = @ + 1]
          /\ IF LoopCond(cfg.Retry, aAttempt + 1)
             THEN /\ aAttempt' = aAttempt + 1
                  /\ UNCHANGED <<aErr, rawJSON, mpc>>
             ELSE /\ aErr' = "exhausted"
                  /\ mpc' = "A_ret"
                  /\ UNCHANGED <<aAttempt, rawJSON>>
    /\ UNCHANGED <<cfg, svcVars, repoVars, extractVars, paceVars, delayVars,
                 retryVars, seedVars, poolVars, locations, scrapeRet,
                   products, tabVars>>

\* A Stage A whose error is dropped: the stages after it run on no links.
ReturnAIgnoresError ==
    /\ mpc = "A_ret"
    /\ tabA' = FALSE
    /\ nReleased' = nReleased + 1
    /\ locations' = rawJSON.links
    /\ mpc' = "B_spawn"
    /\ UNCHANGED <<cfg, svcVars, repoVars, extractVars, paceVars, delayVars,
                   retryVars, seedVars, poolVars, aAttempt, aNavs, aErr, rawJSON,
                   scrapeRet, products, tabB, tabC, nCreated>>

\* Lines 277-286 with the deferred cancel, and Scrape lines 150-153: an error
\* of the run or of json.Unmarshal is returned by Scrape.
ReturnA ==
    /\ mpc = "A_ret"
    /\ tabA' = FALSE
    /\ nReleased' = nReleased + 1
    /\ IF aErr = "nil" /\ rawJSON.valid
       THEN /\ locations' = rawJSON.links
            /\ mpc' = "B_spawn"
            /\ UNCHANGED scrapeRet
       ELSE /\ scrapeRet' = "err"
            /\ mpc' = "done"
            /\ UNCHANGED locations
    /\ UNCHANGED <<cfg, svcVars, repoVars, extractVars, paceVars, delayVars,
                 retryVars, seedVars, poolVars, aAttempt, aNavs, aErr, rawJSON,
                   products, tabB, tabC, nCreated>>

(***************************************************************************)
(* Stage B: extractAllCardLinksConcurrent                                  *)
(***************************************************************************)
\* Lines 185-202: a goroutine is started for every location.
SpawnSeeds ==
    /\ mpc = "B_spawn"
    /\ spc' = [k \in DOMAIN spc |-> IF k <= Len(locations) THEN "sem" ELSE "idle"]
    /\ mpc' = "B_wait"
    /\ UNCHANGED <<cfg, svcVars, repoVars, extractVars, paceVars, delayVars,
                 retryVars, poolVars, tabVars, aAttempt, aNavs, aErr, rawJSON,
                   locations, scrapeRet, products, sPage, sAttempt, sLinks,
                   sFailed, sem, allLinks>>

\* Line 193: `sem <- struct{}{}` blocks while the channel is full.
AcquireSem(k) ==
    /\ spc[k] = "sem"
    /\ sem < SemCap
    /\ sem' = sem + 1
    /\ spc' = [spc EXCEPT ![k] = "newtab"]
    /\ UNCHANGED <<cfg, svcVars, repoVars, extractVars, paceVars, delayVars,
                 retryVars, mainVars, poolVars, tabVars, sPage, sAttempt,
                   sLinks, sFailed, allLinks>>

\* Lines 293-297 and 312-313: extractCardLinks opens its tab; scrapeCardPage
\* waits for the rate limiter and the random delay of page 1.
NewTabB(k) ==
    /\ spc[k] = "newtab"
    /\ tabB' = [tabB EXCEPT ![k] = TRUE]
    /\ nCreated' = nCreated + 1
    /\ spc' = [spc EXCEPT ![k] = "run"]
    /\ UNCHANGED <<cfg, svcVars, repoVars, extractVars, paceVars, delayVars,
                 retryVars, mainVars, poolVars, tabA, tabC, nReleased,
                   sPage, sAttempt, sLinks, sFailed, sem, allLinks>>

\* A pagination lookup after every page.
AfterPageAlwaysNext(page) == "next"

\* Lines 297-307: after page 1 the next-page link is looked up; after page 2
\* extractCardLinks returns.
AfterPage(page) == IF page = 1 THEN "next" ELSE "ret"

\* A page failure that empties the location's list.
AttemptBClearsOnFailure(k) ==
    /\ spc[k] = "run"
    /\ LET after == AfterPage(sPage[k])
       IN \/ /\ sLinks' = [sLinks EXCEPT ![k] =
                    @ \o CardLinksJS(Cards(locations[k], sPage[k]), cfg.Scraper.CardsPage1)]
             /\ spc' = [spc EXCEPT ![k] = after]
             /\ sAttempt' = [sAttempt EXCEPT ![k] = 0]
             /\ UNCHANGED sFailed
          \/ IF LoopCond(cfg.Retry, sAttempt[k] + 1)
             THEN /\ sAttempt' = [sAttempt EXCEPT ![k] = @ + 1]
                  /\ UNCHANGED <<spc, sLinks, sFailed>>
             ELSE /\ sFailed' = [sFailed EXCEPT ![k] = @ \cup {sPage[k]}]
                  /\ spc' = [spc EXCEPT ![k] = after]
                  /\ sAttempt' = [sAttempt EXCEPT ![k] = 0]
                  /\ sLinks' = [sLinks EXCEPT ![k] = <<>>]
    /\ UNCHANGED <<cfg, svcVars, repoVars, extractVars, paceVars, delayVars,
                 retryVars, mainVars, poolVars, tabVars, sPage, sem, allLinks>>

\* Lines 317-328: one attempt of scrapeCardPage's runWithRetry. On success
\* the page's links (cut to CardsPage1, line 322) are returned; when the
\* attempts are exhausted the error is logged and the nil slice returned.
AttemptB(k) ==
    /\ spc[k] = "run"
    /\ LET after == AfterPage(sPage[k])
       IN \/ /\ sLinks' = [sLinks EXCEPT ![k] =
                    @ \o CardLinksJS(Cards(locations[k], sPage[k]), cfg.Scraper.CardsPage1)]
             /\ spc' = [spc EXCEPT ![k] = after]
             /\ sAttempt' = [sAttempt EXCEPT ![k] = 0]
             /\ UNCHANGED sFailed
          \/ IF LoopCond(cfg.Retry, sAttempt[k] + 1)
             THEN /\ sAttempt' = [sAttempt EXCEPT ![k] = @ + 1]
                  /\ UNCHANGED <<spc, sLinks, sFailed>>
             ELSE /\ sFailed' = [sFailed EXCEPT ![k] = @ \cup {sPage[k]}]
                  /\ spc' = [spc EXCEPT ![k] = after]
                  /\ sAttempt' = [sAttempt EXCEPT ![k] = 0]
                  /\ UNCHANGED sLinks
    /\ UNCHANGED <<cfg, svcVars, repoVars, extractVars, paceVars, delayVars,
                 retryVars, mainVars, poolVars, tabVars, sPage, sem, allLinks>>

\* Lines 300-306, 312-313 and 333-341: findNextPageURL evaluates nextPageJS
\* in the tab, once, ignoring the error; an empty href ends the location after
\* page 1, otherwise scrapeCardPage waits for the rate limiter and the random
\* delay of page 2.
FindNextPage(k) ==
    /\ spc[k] = "next"
    /\ \E found \in BOOLEAN :
          IF found
          THEN /\ sPage' = [sPage EXCEPT ![k] = 2]
               /\ spc' = [spc EXCEPT ![k] = "run"]
          ELSE /\ spc' = [spc EXCEPT ![k] = "ret"]
               /\ UNCHANGED sPage
    /\ UNCHANGED <<cfg, svcVars, repoVars, extractVars, paceVars, delayVars,
                 retryVars, mainVars, poolVars, tabVars, sAttempt, sLinks,
                   sFailed, sem, allLinks>>

\* A return that closes the tab only when no page failed.
ReturnCardLinksLeaksOnError(k) ==
    /\ spc[k] = "ret"
    /\ IF sFailed[k] = {}
       THEN /\ tabB' = [tabB EXCEPT ![k] = FALSE]
            /\ nReleased' = nReleased + 1
       ELSE UNCHANGED <<tabB, nReleased>>
    /\ spc' = [spc EXCEPT ![k] = "unsem"]
    /\ UNCHANGED <<cfg, svcVars, repoVars, extractVars, paceVars, delayVars,
                 retryVars, mainVars, poolVars, tabA, tabC, nCreated,
                   sPage, sAttempt, sLinks, sFailed, sem, allLinks>>

\* Lines 294, 302, 307: extractCardLinks returns; the deferred cancel closes
\* the tab.
ReturnCardLinks(k) ==
    /\ spc[k] = "ret"
    /\ tabB' = [tabB EXCEPT ![k] = FALSE]
    /\ nReleased' = nReleased + 1
    /\ spc' = [spc EXCEPT ![k] = "unsem"]
    /\ UNCHANGED <<cfg, svcVars, repoVars, extractVars, paceVars, delayVars,
                 retryVars, mainVars, poolVars, tabA, tabC, nCreated,
                   sPage, sAttempt, sLinks, sFailed, sem, allLinks>>

\* Line 195: `<-sem`.
ReleaseSem(k) ==
    /\ spc[k] = "unsem"
    /\ sem' = sem - 1
    /\ spc' = [spc EXCEPT ![k] = "merge"]
    /\ UNCHANGED <<cfg, svcVars, repoVars, extractVars, paceVars, delayVars,
                 retryVars, mainVars, poolVars, tabVars, sPage, sAttempt,
                   sLinks, sFailed, allLinks>>

\* A merge that leaves out the links allLinks holds already.
MergeDedups(k) ==
    /\ spc[k] = "merge"
    /\ allLinks' = allLinks \o
          SelectSeq(sLinks[k],
                    LAMBDA u : \A i \in 1..Len(allLinks) : allLinks[i] # u)
    /\ spc' = [spc EXCEPT ![k] = "done"]
    /\ UNCHANGED <<cfg, svcVars, repoVars, extractVars, paceVars, delayVars,
                 retryVars, mainVars, poolVars, tabVars, sPage, sAttempt,
                   sLinks, sFailed, sem>>

\* Lines 197-199 and 191: under the mutex the links are appended to allLinks;
\* the goroutine ends (wg.Done).
Merge(k) ==
    /\ spc[k] = "merge"
    /\ allLinks' = allLinks \o sLinks[k]
    /\ spc' = [spc EXCEPT ![k] = "done"]
    /\ UNCHANGED <<cfg, svcVars, repoVars, extractVars, paceVars, delayVars,
                 retryVars, mainVars, poolVars, tabVars, sPage, sAttempt,
                   sLinks, sFailed, sem>>

\* A wait that returns while goroutines are still running.
WaitSeedsNoBarrier ==
    /\ mpc = "B_wait"
    /\ mpc' = "C_spawn"
    /\ UNCHANGED <<cfg, svcVars, repoVars, extractVars, paceVars, delayVars,
                 retryVars, seedVars, poolVars, tabVars, aAttempt, aNavs, aErr,
                   rawJSON, locations, scrapeRet, products>>

\* Lines 204-206: wg.Wait returns when every goroutine is done.
WaitSeeds ==
    /\ mpc = "B_wait"
    /\ \A k \in DOMAIN spc : spc[k] \in {"idle", "done"}
    /\ mpc' = "C_spawn"
    /\ UNCHANGED <<cfg, svcVars, repoVars, extractVars, paceVars, delayVars,
                 retryVars, seedVars, poolVars, tabVars, aAttempt, aNavs, aErr,
                   rawJSON, locations, scrapeRet, products>>

(***************************************************************************)
(* Stage C: extractProductsWorkerPool                                      *)
(***************************************************************************)
\* A worker pool the size of the largest pool examined, whatever the
\* configuration says.
WorkerCountFixed(c) == MaxProductWorkers

\* Scrape line 161: workerCount is Concurrency.ProductWorkers.
WorkerCount(c) == c.Concurrency.ProductWorkers

\* Lines 216-239: the channels are made, both with room for every link, and
\* workerCount workers are started.
StartWorkers ==
    /\ mpc = "C_spawn"
    /\ wpc' = [w \in DOMAIN wpc |->
                 IF w <= WorkerCount(cfg) THEN "recv" ELSE "idle"]
    /\ taken' = [i \in 1..Len(allLinks) |-> 0]
    /\ outcome' = [i \in 1..Len(allLinks) |-> "none"]
    /\ mpc' = "C_send"
    /\ UNCHANGED <<cfg, svcVars, repoVars, extractVars, paceVars, delayVars,
                 retryVars, seedVars, tabVars, aAttempt, aNavs, aErr, rawJSON,
                   locations, scrapeRet, products, jobs, jobsClosed, results,
                   wJob, wAttempt, wExpired, wErr>>

\* Lines 242-246: every link is sent on jobs, which has room for all of them
\* (so no send blocks), and jobs is closed.
SendJobs ==
    /\ mpc = "C_send"
    /\ jobs' = [i \in 1..Len(allLinks) |-> [i |-> i, url |-> allLinks[i]]]
    /\ jobsClosed' = TRUE
    /\ mpc' = "C_wait"
    /\ UNCHANGED <<cfg, svcVars, repoVars, extractVars, paceVars, delayVars,
                 retryVars, seedVars, tabVars, aAttempt, aNavs, aErr, rawJSON,
                   locations, scrapeRet, products, results, wpc, wJob, wAttempt,
                   wExpired, wErr, taken, outcome>>

\* A receive that leaves the link on the queue.
RecvJobKeepsLink(w) ==
    /\ wpc[w] = "recv"
    /\ jobs # <<>>
    /\ wJob' = [wJob EXCEPT ![w] = Head(jobs)]
    /\ taken' = [taken EXCEPT ![Head(jobs).i] = @ + 1]
    /\ wpc' = [wpc EXCEPT ![w] = "newctx"]
    /\ UNCHANGED <<cfg, svcVars, repoVars, extractVars, paceVars, delayVars,
                 retryVars, mainVars, seedVars, tabVars, jobs, jobsClosed,
                   results, wAttempt, wExpired, wErr, outcome>>

\* Line 228: `for url := range jobs` receives the next link.
RecvJob(w) ==
    /\ wpc[w] = "recv"
    /\ jobs # <<>>
    /\ wJob' = [wJob EXCEPT ![w] = Head(jobs)]
    /\ jobs' = Tail(jobs)
    /\ taken' = [taken EXCEPT ![Head(jobs).i] = @ + 1]
    /\ wpc' = [wpc EXCEPT ![w] = "newctx"]
    /\ UNCHANGED <<cfg, svcVars, repoVars, extractVars, paceVars, delayVars,
                 retryVars, mainVars, seedVars, tabVars, jobsClosed, results,
                   wAttempt, wExpired, wErr, outcome>>

\* Lines 227-228: the range ends when jobs is closed and drained (wg.Done).
WorkerExit(w) ==
    /\ wpc[w] = "recv"
    /\ jobs = <<>>
    /\ jobsClosed
    /\ wpc' = [wpc EXCEPT ![w] = "done"]
    /\ UNCHANGED <<cfg, svcVars, repoVars, extractVars, paceVars, delayVars,
                 retryVars, mainVars, seedVars, tabVars, jobs, jobsClosed,
                   results, wJob, wAttempt, wExpired, wErr, taken, outcome>>

\* Lines 344-353: extractProperty waits for the rate limiter and the random
\* delay, creates the browser context and wraps it with the ProductTimeout
\* deadline.
NewContextC(w) ==
    /\ wpc[w] = "newctx"
    /\ tabC' = [tabC EXCEPT ![w] = TRUE]
    /\ nCreated' = nCreated + 1
    /\ wpc' = [wpc EXCEPT ![w] = "run"]
    /\ UNCHANGED <<cfg, svcVars, repoVars, extractVars, paceVars, delayVars,
                 retryVars, mainVars, seedVars, tabA, tabB, nReleased, jobs,
                   jobsClosed, results, wJob, wAttempt, wExpired, wErr, taken, outcome>>

\* Line 352: the deadline of tabCtx passes while runWithRetry is running.
DeadlineC(w) ==
    /\ wpc[w] \in {"run", "backoff"}
    /\ ~wExpired[w]
    /\ wExpired' = [wExpired EXCEPT ![w] = TRUE]
    /\ UNCHANGED <<cfg, svcVars, repoVars, extractVars, paceVars, delayVars,
                 retryVars, mainVars, seedVars, tabVars, jobs, jobsClosed,
                   results, wpc, wJob, wAttempt, wErr, taken, outcome>>

\* Lines 357-372 and 78-105: one attempt of extractProperty's runWithRetry.
\* chromedp.Run fails once the deadline has passed. After a failure with
\* retries left the select is entered; without, the loop ends.
AttemptC(w) ==
    /\ wpc[w] = "run"
    /\ \/ /\ ~wExpired[w]
          /\ wErr' = [wErr EXCEPT ![w] = "nil"]
          /\ wpc' = [wpc EXCEPT ![w] = "ret"]
          /\ UNCHANGED wAttempt
       \/ IF RetryLeft(cfg.Retry, wAttempt[w])
          THEN \E d \in Backoff(cfg.Retry, wAttempt[w]) :
               \E s \in SelectAtEntry(d, wExpired[w]) :
                  CASE s = "done" ->
                         /\ wErr' = [wErr EXCEPT ![w] = "ctx"]
                         /\ wpc' = [wpc EXCEPT ![w] = "ret"]
                         /\ UNCHANGED wAttempt
                    [] s = "timer" ->
                         /\ wAttempt' = [wAttempt EXCEPT ![w] = @ + 1]
                         /\ UNCHANGED <<wErr, wpc>>
                    [] OTHER ->
                         /\ wpc' = [wpc EXCEPT ![w] = "backoff"]
                         /\ UNCHANGED <<wErr, wAttempt>>
          ELSE /\ wErr' = [wErr EXCEPT ![w] = "exhausted"]
               /\ wpc' = [wpc EXCEPT ![w] = "ret"]
               /\ UNCHANGED wAttempt
    /\ UNCHANGED <<cfg, svcVars, repoVars, extractVars, paceVars, delayVars,
                 retryVars, mainVars, seedVars, tabVars, jobs, jobsClosed,
                   results, wJob, wExpired, taken, outcome>>

\* A backoff that ends by its timer although the deadline has passed.
BackoffElapsedCIgnoresDeadline(w) ==
    /\ wpc[w] = "backoff"
    /\ wAttempt' = [wAttempt EXCEPT ![w] = @ + 1]
    /\ wpc' = [wpc EXCEPT ![w] = "run"]
    /\ UNCHANGED <<cfg, svcVars, repoVars, extractVars, paceVars, delayVars,
                 retryVars, mainVars, seedVars, tabVars, jobs, jobsClosed,
                   results, wJob, wExpired, wErr, taken, outcome>>

\* Lines 100-101: the backoff elapses before the deadline; attempt++.
BackoffElapsedC(w) ==
    /\ wpc[w] = "backoff"
    /\ ~DoneCase(wExpired[w])
    /\ wAttempt' = [wAttempt EXCEPT ![w] = @ + 1]
    /\ wpc' = [wpc EXCEPT ![w] = "run"]
    /\ UNCHANGED <<cfg, svcVars, repoVars, extractVars, paceVars, delayVars,
                 retryVars, mainVars, seedVars, tabVars, jobs, jobsClosed,
                   results, wJob, wExpired, wErr, taken, outcome>>

\* Lines 102-103: the deadline passes during the backoff; ctx.Err() is
\* returned.
BackoffCancelledC(w) ==
    /\ wpc[w] = "backoff"
    /\ DoneCase(wExpired[w])
    /\ wErr' = [wErr EXCEPT ![w] = "ctx"]
    /\ wpc' = [wpc EXCEPT ![w] = "ret"]
    /\ UNCHANGED <<cfg, svcVars, repoVars, extractVars, paceVars, delayVars,
                 retryVars, mainVars, seedVars, tabVars, jobs, jobsClosed,
                   results, wJob, wAttempt, wExpired, taken, outcome>>

\* A results channel without a buffer: a send waits for a receiver.
ResultsCapUnbuffered(links) == 0

\* Line 217: results := make(chan models.Property, len(cardLinks))
ResultsCap(links) == Len(links)

\* A worker that sends a record whether or not the extraction failed.
ReturnPropertySendsOnError(w) ==
    /\ wpc[w] = "ret"
    /\ tabC' = [tabC EXCEPT ![w] = FALSE]
    /\ nReleased' = nReleased + 1
    /\ outcome' = [outcome EXCEPT ![wJob[w].i] = IF wErr[w] = "nil" THEN "ok" ELSE wErr[w]]
    /\ Len(results) < ResultsCap(allLinks)
    /\ results' = Append(results, Property(wJob[w].url))
    /\ wpc' = [wpc EXCEPT ![w] = "recv"]
    /\ wJob' = [wJob EXCEPT ![w] = NoJob]
    /\ wAttempt' = [wAttempt EXCEPT ![w] = 0]
    /\ wExpired' = [wExpired EXCEPT ![w] = FALSE]
    /\ wErr' = [wErr EXCEPT ![w] = "none"]
    /\ UNCHANGED <<cfg, svcVars, repoVars, extractVars, paceVars, delayVars,
                 retryVars, mainVars, seedVars, tabA, tabB, nCreated, jobs,
                   jobsClosed, taken>>

\* An extractProperty that returns without cancelling its browser context.
ReturnPropertyLeaksContext(w) ==
    /\ wpc[w] = "ret"
    /\ outcome' = [outcome EXCEPT ![wJob[w].i] = IF wErr[w] = "nil" THEN "ok" ELSE wErr[w]]
    /\ IF wErr[w] = "nil"
       THEN /\ Len(results) < ResultsCap(allLinks)
            /\ results' = Append(results, Property(wJob[w].url))
       ELSE UNCHANGED results
    /\ wpc' = [wpc EXCEPT ![w] = "recv"]
    /\ wJob' = [wJob EXCEPT ![w] = NoJob]
    /\ wAttempt' = [wAttempt EXCEPT ![w] = 0]
    /\ wExpired' = [wExpired EXCEPT ![w] = FALSE]
    /\ wErr' = [wErr EXCEPT ![w] = "none"]
    /\ UNCHANGED <<cfg, svcVars, repoVars, extractVars, paceVars, delayVars,
                 retryVars, mainVars, seedVars, tabVars, jobs,
                   jobsClosed, taken>>

\* Lines 350, 353, 373-388 and 229-237: extractProperty returns the record or
\* the error and its deferred cancels close the browser context; the worker
\* logs an error and continues, or sends the record on results (which has
\* room for every link), and goes on to the next link.
ReturnProperty(w) ==
    /\ wpc[w] = "ret"
    /\ tabC' = [tabC EXCEPT ![w] = FALSE]
    /\ nReleased' = nReleased + 1
    /\ outcome' = [outcome EXCEPT ![wJob[w].i] = IF wErr[w] = "nil" THEN "ok" ELSE wErr[w]]
    /\ IF wErr[w] = "nil"
       THEN /\ Len(results) < ResultsCap(allLinks)
            /\ results' = Append(results, Property(wJob[w].url))
       ELSE UNCHANGED results
    /\ wpc' = [wpc EXCEPT ![w] = "recv"]
    /\ wJob' = [wJob EXCEPT ![w] = NoJob]
    /\ wAttempt' = [wAttempt EXCEPT ![w] = 0]
    /\ wExpired' = [wExpired EXCEPT ![w] = FALSE]
    /\ wErr' = [wErr EXCEPT ![w] = "none"]
    /\ UNCHANGED <<cfg, svcVars, repoVars, extractVars, paceVars, delayVars,
                 retryVars, mainVars, seedVars, tabA, tabB, nCreated, jobs,
                   jobsClosed, taken>>

\* Lines 248-249: wg.Wait returns when every worker is done; close(results).
WaitWorkers ==
    /\ mpc = "C_wait"
    /\ \A w \in DOMAIN wpc : wpc[w] \in {"idle", "done"}
    /\ mpc' = "C_collect"
    /\ UNCHANGED <<cfg, svcVars, repoVars, extractVars, paceVars, delayVars,
                 retryVars, seedVars, poolVars, tabVars, aAttempt, aNavs, aErr,
                   rawJSON, locations, scrapeRet, products>>

\* Lines 251-256 and Scrape lines 163-172: the records are read from results
\* and returned with a nil error.
Collect ==
    /\ mpc = "C_collect"
    /\ products' = results
    /\ results' = <<>>
    /\ scrapeRet' = "ok"
    /\ mpc' = "done"
    /\ UNCHANGED <<cfg, svcVars, repoVars, extractVars, paceVars, delayVars,
                 retryVars, seedVars, tabVars, aAttempt, aNavs, aErr, rawJSON,
                   locations, jobs, jobsClosed, wpc, wJob, wAttempt, wExpired,
                   wErr, taken, outcome>>

(***************************************************************************)
(* The specifications                                                      *)
(***************************************************************************)
Seeds == 1..MaxSeeds
Workers == 1..MaxProductWorkers

PipeInit ==
    /\ mpc = "A_newtab"
    /\ aAttempt = 0
    /\ aNavs = [failed |-> 0, ok |-> 0]
    /\ aErr = "none"
    /\ rawJSON = [valid |-> FALSE, links |-> <<>>]
    /\ locations = <<>>
    /\ scrapeRet = "none"
    /\ products = <<>>
    /\ spc = [k \in Seeds |-> "idle"]
    /\ sPage = [k \in Seeds |-> 1]
    /\ sAttempt = [k \in Seeds |-> 0]
    /\ sLinks = [k \in Seeds |-> <<>>]
    /\ sFailed = [k \in Seeds |-> {}]
    /\ sem = 0
    /\ allLinks = <<>>
    /\ jobs = <<>>
    /\ jobsClosed = FALSE
    /\ results = <<>>
    /\ wpc = [w \in Workers |-> "idle"]
    /\ wJob = [w \in Workers |-> NoJob]
    /\ wAttempt = [w \in Workers |-> 0]
    /\ wExpired = [w \in Workers |-> FALSE]
    /\ wErr = [w \in Workers |-> "none"]
    /\ taken = <<>>
    /\ outcome = <<>>
    /\ tabA = FALSE
    /\ tabB = [k \in Seeds |-> FALSE]
    /\ tabC = [w \in Workers |-> FALSE]
    /\ nCreated = 0
    /\ nReleased = 0

NoRunReturn == [kind |-> "none", records |-> <<>>]

\* Run has called Scrape for the first time.
SvcInit ==
    /\ run = "scrape"
    /\ runAttempt = 0
    /\ scrapeCalls = 1
    /\ property = <<>>
    /\ saveAttempt = 0
    /\ saveCalls = 0
    /\ saved = <<>>
    /\ runRet = NoRunReturn

\* Save has not been called.
RepoIdle ==
    /\ tpc = "idle"
    /\ batch = <<>>
    /\ idx = 1
    /\ tx = <<>>
    /\ saveErr = "none"
    /\ before = <<>>
    /\ repeated = FALSE

\* A text is the sequence of its characters; <<>> is the empty string.
NoPage == [title |-> <<>>, priceText |-> <<>>, ratingText |-> <<>>,
           location |-> <<>>, description |-> <<>>]
\* models.Property{}
ZeroProperty == [Platform |-> "", Title |-> <<>>, Price |-> 0, Location |-> <<>>,
                 URL |-> 0, Rating |-> 0, Description |-> <<>>]
NoExtract == [err |-> "none", record |-> ZeroProperty]

\* extractProperty has not been called.
ExtractIdle ==
    /\ epc = "idle"
    /\ eURL = 0
    /\ pageTexts = NoPage
    /\ eRet = NoExtract

Callers == 1..MaxCallers

\* The limiter as NewChromedpScraper leaves it: nothing ticked, nobody admitted.
LimiterInit ==
    /\ requestMutex = 0
    /\ tickC = 0
    /\ slots = 0
    /\ admitted = 0

\* The histories of the goroutines before any of them has run.
CallersInit ==
    /\ gPage = [p \in Callers |-> 1]
    /\ gAttempt = [p \in Callers |-> 0]
    /\ gTimer = [p \in Callers |-> FALSE]
    /\ gErr = [p \in Callers |-> "none"]
    /\ consults = [p \in Callers |-> 0]
    /\ delays = [p \in Callers |-> 0]
    /\ navs = [p \in Callers |-> 0]
    /\ navUA = [p \in Callers |-> 0]
    /\ lookups = [p \in Callers |-> 0]
    /\ lookupErr = [p \in Callers |-> FALSE]
    /\ uaPicks = 0
    /\ cancelled = FALSE

\* No stage's goroutines are being followed.
PaceIdle ==
    /\ stage = "none"
    /\ callers = 0
    /\ gpc = [p \in Callers |-> "off"]
    /\ CallersInit
    /\ LimiterInit

\* randomDelay has not been called.
DelayIdle ==
    /\ dpc = "idle"
    /\ dSlept = <<>>

\* config.Default(), lines 83-122 of config/settings.go (durations in the
\* model's unit)
DefaultConcurrency == [LocationWorkers |-> 3, ProductWorkers |-> 3]
DefaultScraper == [CardsPage1 |-> 5, CardsPage2 |-> 5]

RetryConfigs ==
    [MaxRetries : 0..MaxRetriesBound,
     InitialBackoff : 0..MaxInitialBackoff,
     MaxBackoff : 1..MaxMaxBackoff]

InitRetry ==
    /\ cfg \in [Retry : RetryConfigs,
                Concurrency : {DefaultConcurrency},
                Scraper : {DefaultScraper}]
    /\ RetryInit
    /\ PipeInit
    /\ SvcInit
    /\ table = <<>>
    /\ RepoIdle
    /\ PaceIdle
    /\ DelayIdle
    /\ ExtractIdle

NextRetry ==
    \/ CallFn
    \/ FnSucceeds
    \/ FnFails
    \/ TimerFires
    \/ Cancel
    \/ BackoffElapsed
    \/ BackoffCancelled
    \/ ReturnExhausted

SpecRetry == InitRetry /\ [][NextRetry]_vars

PipelineConfigs ==
    [Retry : [MaxRetries : 0..MaxPipelineRetries,
              InitialBackoff : {1},
              MaxBackoff : {3}],
     Concurrency : [LocationWorkers : 1..MaxLocationWorkers,
                    ProductWorkers : 1..MaxProductWorkers],
     Scraper : [CardsPage1 : 1..MaxCards, CardsPage2 : {1}]]

Init ==
    /\ cfg \in PipelineConfigs
    /\ RetryInit
    /\ PipeInit
    /\ SvcInit
    /\ table = <<>>
    /\ RepoIdle
    /\ PaceIdle
    /\ DelayIdle
    /\ ExtractIdle

Next ==
    \/ NewTabA
    \/ AttemptA
    \/ ReturnA
    \/ SpawnSeeds
    \/ \E k \in Seeds :
          \/ AcquireSem(k)
          \/ NewTabB(k)
          \/ AttemptB(k)
          \/ FindNextPage(k)
          \/ ReturnCardLinks(k)
          \/ ReleaseSem(k)
          \/ Merge(k)
    \/ WaitSeeds
    \/ StartWorkers
    \/ SendJobs
    \/ \E w \in Workers :
          \/ RecvJob(w)
          \/ WorkerExit(w)
          \/ NewContextC(w)
          \/ DeadlineC(w)
          \/ AttemptC(w)
          \/ BackoffElapsedC(w)
          \/ BackoffCancelledC(w)
          \/ ReturnProperty(w)
    \/ WaitWorkers
    \/ Collect

Spec == Init /\ [][Next]_vars

\* The steps of Scrape's own goroutine, of the goroutine of location k and of
\* worker w. The Go scheduler runs every goroutine that can run, and every
\* browser action, sleep and backoff returns; the deadline of a tab is not a
\* step of the worker.
MainStep ==
    \/ NewTabA \/ AttemptA \/ ReturnA \/ SpawnSeeds \/ WaitSeeds
    \/ StartWorkers \/ SendJobs \/ WaitWorkers \/ Collect

SeedStep(k) ==
    \/ AcquireSem(k) \/ NewTabB(k) \/ AttemptB(k) \/ FindNextPage(k)
    \/ ReturnCardLinks(k) \/ ReleaseSem(k) \/ Merge(k)

WorkerStep(w) ==
    \/ RecvJob(w) \/ WorkerExit(w) \/ NewContextC(w) \/ AttemptC(w)
    \/ BackoffElapsedC(w) \/ BackoffCancelledC(w) \/ ReturnProperty(w)

Fairness ==
    /\ WF_vars(MainStep)
    /\ \A k \in Seeds : WF_vars(SeedStep(k))
    /\ \A w \in Workers : WF_vars(WorkerStep(w))

SpecFair == Init /\ [][Next]_vars /\ Fairness

(***************************************************************************)
(* ScraperService.Run: the retry loop around Scrape, then around repo.Save *)
(* (service/scraper_service.go). Run is given context.Background() by      *)
(* main, so its backoffs always elapse: a backoff is part of the failed    *)
(* attempt's step. repo.Save is seen from outside: it commits the batch or *)
(* returns an error.                                                       *)
(***************************************************************************)
\* A retry loop that goes on from the attempts another loop has used.
FreshAttemptShared(used) == used

\* Line 74: `attempt := 0`, whatever an earlier call of retryWithBackoff
\* has used.
FreshAttempt(used) == 0

\* Scrape is taken to have returned while the pool is still waited for.
ScrapeReturnedEarly == mpc \in {"C_wait", "done"}

\* Line 42: s.scraper.Scrape has returned.
ScrapeReturned == mpc = "done"

\* A retry of Scrape that does not give Stage A a fresh retry budget.
RunRetriesScrapeSharedBudget ==
    /\ run = "scrape"
    /\ ScrapeReturned
    /\ scrapeRet = "err"
    /\ RetryLeft(cfg.Retry, runAttempt)
    /\ runAttempt' = runAttempt + 1
    /\ scrapeCalls' = scrapeCalls + 1
    /\ mpc' = "A_newtab"
    /\ aAttempt' = aAttempt
    /\ aErr' = "none"
    /\ rawJSON' = [valid |-> FALSE, links |-> <<>>]
    /\ scrapeRet' = "none"
    /\ UNCHANGED <<cfg, paceVars, delayVars, retryVars, seedVars, poolVars, tabVars, repoVars, extractVars,
                   aNavs, locations, products, run, property, saveAttempt,
                   saveCalls, saved, runRet>>

\* Lines 42-43, 84-103: Scrape returned an error and the loop has an attempt
\* left; after the backoff Scrape is called again.
RunRetriesScrape ==
    /\ run = "scrape"
    /\ ScrapeReturned
    /\ scrapeRet = "err"
    /\ RetryLeft(cfg.Retry, runAttempt)
    /\ runAttempt' = runAttempt + 1
    /\ scrapeCalls' = scrapeCalls + 1
    /\ mpc' = "A_newtab"
    /\ aAttempt' = 0
    /\ aErr' = "none"
    /\ rawJSON' = [valid |-> FALSE, links |-> <<>>]
    /\ scrapeRet' = "none"
    /\ UNCHANGED <<cfg, paceVars, delayVars, retryVars, seedVars, poolVars, tabVars, repoVars, extractVars,
                   aNavs, locations, products, run, property, saveAttempt,
                   saveCalls, saved, runRet>>

\* Lines 46-49, 105-106: Scrape returned an error on the last attempt; Run
\* returns nil and the error.
RunScrapeExhausted ==
    /\ run = "scrape"
    /\ ScrapeReturned
    /\ scrapeRet = "err"
    /\ ~RetryLeft(cfg.Retry, runAttempt)
    /\ run' = "returned"
    /\ runRet' = [kind |-> "error", records |-> <<>>]
    /\ UNCHANGED <<cfg, paceVars, delayVars, retryVars, pipeVars, repoVars, extractVars, runAttempt,
                   scrapeCalls, property, saveAttempt, saveCalls, saved>>

\* Lines 42-44, 79-83 and 52: Scrape returned the records and nil; the retry
\* loop around repo.Save is entered.
RunScrapeSucceeds ==
    /\ run = "scrape"
    /\ ScrapeReturned
    /\ scrapeRet # "err"
    /\ property' = products
    /\ saveAttempt' = FreshAttempt(runAttempt)
    /\ run' = "save"
    /\ UNCHANGED <<cfg, paceVars, delayVars, retryVars, pipeVars, repoVars, extractVars, runAttempt,
                   scrapeCalls, saveCalls, saved, runRet>>

\* Lines 52-54 and 61-64: repo.Save returns nil (an empty batch is not sent
\* to the database); Run returns the records.
SaveSucceeds ==
    /\ run = "save"
    /\ LoopCond(cfg.Retry, saveAttempt)
    /\ saveCalls' = saveCalls + 1
    /\ saved' = IF property = <<>> THEN saved ELSE Append(saved, property)
    /\ run' = "returned"
    /\ runRet' = [kind |-> "ok", records |-> property]
    /\ UNCHANGED <<cfg, paceVars, delayVars, retryVars, pipeVars, repoVars, extractVars, runAttempt,
                   scrapeCalls, property, saveAttempt>>

\* A Run that hands the records back although Save never succeeded.
SaveFailsReturnsRecords ==
    /\ run = "save"
    /\ LoopCond(cfg.Retry, saveAttempt)
    /\ property # <<>>
    /\ saveCalls' = saveCalls + 1
    /\ IF RetryLeft(cfg.Retry, saveAttempt)
       THEN /\ saveAttempt' = saveAttempt + 1
            /\ UNCHANGED <<run, runRet>>
       ELSE /\ run' = "returned"
            /\ runRet' = [kind |-> "error", records |-> property]
            /\ UNCHANGED saveAttempt
    /\ UNCHANGED <<cfg, paceVars, delayVars, retryVars, pipeVars, repoVars, extractVars, runAttempt,
                   scrapeCalls, property, saved>>

\* Lines 52-59, 84-106: repo.Save returns an error, which it can only for a
\* non-empty batch; with an attempt left it is called again after the
\* backoff, otherwise Run returns nil and the error.
SaveFails ==
    /\ run = "save"
    /\ LoopCond(cfg.Retry, saveAttempt)
    /\ property # <<>>
    /\ saveCalls' = saveCalls + 1
    /\ IF RetryLeft(cfg.Retry, saveAttempt)
       THEN /\ saveAttempt' = saveAttempt + 1
            /\ UNCHANGED <<run, runRet>>
       ELSE /\ run' = "returned"
            /\ runRet' = [kind |-> "error", records |-> <<>>]
            /\ UNCHANGED saveAttempt
    /\ UNCHANGED <<cfg, paceVars, delayVars, retryVars, pipeVars, repoVars, extractVars, runAttempt,
                   scrapeCalls, property, saved>>

NextRun ==
    \/ Next
    \/ RunRetriesScrape
    \/ RunScrapeExhausted
    \/ RunScrapeSucceeds
    \/ SaveSucceeds
    \/ SaveFails

SpecRun == Init /\ [][NextRun]_vars

(***************************************************************************)
(* PostgresRepository.Save on the table properties                         *)
(* (internal/domain/postgres_repository.go). The table is the list of its  *)
(* rows in insertion order; the UNIQUE constraint on url is the database's *)
(* and holds of the table Save finds. A statement or a commit that returns *)
(* an error has changed nothing, and a rollback discards the transaction.  *)
(***************************************************************************)
SaveURLs == 1..MaxSaveURLs
Platforms == {"Airbnb", "Other"}
\* Two values for the scraped fields are enough to tell a row that was
\* overwritten from one that was kept.
Versions == {"a", "b"}

\* A row with platform pl and URL u whose scraped fields are of version v.
Row(pl, u, v) ==
    [Platform |-> pl, Title |-> v, Price |-> IF v = "a" THEN 1 ELSE 2,
     Location |-> v, URL |-> u, Rating |-> IF v = "a" THEN 1 ELSE 2,
     Description |-> v]

\* models.Property as extractProperty builds it: Platform is "Airbnb".
Record(u, v) == Row("Airbnb", u, v)

Records == {Record(u, v) : u \in SaveURLs, v \in Versions}
Batches == UNION {[1..n -> Records] : n \in 0..MaxBatch}

\* The tables Save can find: at most one row per URL (listed by URL).
PriorTables ==
    LET rows == {Row(pl, u, v) : pl \in Platforms, u \in SaveURLs, v \in Versions}
    IN  {t \in UNION {[1..n -> rows] : n \in 0..MaxSaveURLs} :
            \A i, j \in DOMAIN t : i < j => t[i].URL < t[j].URL}

\* An upsert that removes the row it conflicts with.
UpsertToggles(rows, p) ==
    IF \E i \in DOMAIN rows : rows[i].URL = p.URL
    THEN SelectSeq(rows, LAMBDA r : r.URL # p.URL)
    ELSE Append(rows, p)

\* An INSERT without the ON CONFLICT clause, on a table without the constraint.
UpsertPlainInsert(rows, p) == Append(rows, p)

\* Lines 29-38: INSERT ... ON CONFLICT (url) DO UPDATE SET title, price,
\* location, rating, description (not platform).
Upsert(rows, p) ==
    IF \E i \in DOMAIN rows : rows[i].URL = p.URL
    THEN [i \in DOMAIN rows |->
            IF rows[i].URL = p.URL
            THEN [rows[i] EXCEPT !.Title = p.Title, !.Price = p.Price,
                                 !.Location = p.Location, !.Rating = p.Rating,
                                 !.Description = p.Description]
            ELSE rows[i]]
    ELSE Append(rows, p)

\* Lines 19-22: Save is called with an empty batch and returns nil.
SaveEmpty ==
    /\ tpc \in {"idle", "returned"}
    /\ batch' = <<>>
    /\ before' = table
    /\ repeated' = FALSE
    /\ saveErr' = "nil"
    /\ tpc' = "returned"
    /\ idx' = 1
    /\ tx' = <<>>
    /\ UNCHANGED <<cfg, paceVars, delayVars, retryVars, pipeVars, svcVars, extractVars, table>>

\* Lines 19-27: Save is called with a non-empty batch; BeginTx opens the
\* transaction or fails.
BeginTx ==
    /\ tpc \in {"idle", "returned"}
    /\ \E R \in Batches \ {<<>>} :
          /\ batch' = R
          /\ repeated' = (tpc = "returned" /\ saveErr = "nil" /\ R = batch)
    /\ before' = table
    /\ idx' = 1
    /\ \/ /\ tx' = table
          /\ saveErr' = "none"
          /\ tpc' = "prepare"
       \/ /\ tx' = <<>>
          /\ saveErr' = "begin tx"
          /\ tpc' = "returned"
    /\ UNCHANGED <<cfg, paceVars, delayVars, retryVars, pipeVars, svcVars, extractVars, table>>

\* Lines 29-43: PrepareContext; on an error the transaction is rolled back.
Prepare ==
    /\ tpc = "prepare"
    /\ \/ /\ tpc' = "exec"
          /\ UNCHANGED <<tx, saveErr>>
       \/ /\ tx' = <<>>
          /\ saveErr' = "prepare stmt"
          /\ tpc' = "returned"
    /\ UNCHANGED <<cfg, paceVars, delayVars, retryVars, pipeVars, svcVars, extractVars, table, batch,
                   idx, before, repeated>>

\* A failed row that commits the rows executed before it.
ExecCommitsPartial ==
    /\ tpc = "exec"
    /\ idx <= Len(batch)
    /\ \/ /\ tx' = Upsert(tx, batch[idx])
          /\ idx' = idx + 1
          /\ UNCHANGED <<table, saveErr, tpc>>
       \/ /\ table' = tx
          /\ tx' = <<>>
          /\ saveErr' = "exec insert"
          /\ tpc' = "returned"
          /\ UNCHANGED idx
    /\ UNCHANGED <<cfg, paceVars, delayVars, retryVars, pipeVars, svcVars, extractVars, batch, before,
                   repeated>>

\* Lines 45-58: the statement is executed for the next record of the batch;
\* on an error the transaction is rolled back.
Exec ==
    /\ tpc = "exec"
    /\ idx <= Len(batch)
    /\ \/ /\ tx' = Upsert(tx, batch[idx])
          /\ idx' = idx + 1
          /\ UNCHANGED <<saveErr, tpc>>
       \/ /\ tx' = <<>>
          /\ saveErr' = "exec insert"
          /\ tpc' = "returned"
          /\ UNCHANGED idx
    /\ UNCHANGED <<cfg, paceVars, delayVars, retryVars, pipeVars, svcVars, extractVars, table, batch,
                   before, repeated>>

\* Lines 60-64: Commit makes the transaction's rows the table's, or fails.
Commit ==
    /\ tpc = "exec"
    /\ idx > Len(batch)
    /\ \/ /\ table' = tx
          /\ saveErr' = "nil"
       \/ /\ saveErr' = "commit tx"
          /\ UNCHANGED table
    /\ tx' = <<>>
    /\ tpc' = "returned"
    /\ UNCHANGED <<cfg, paceVars, delayVars, retryVars, pipeVars, svcVars, extractVars, batch, idx,
                   before, repeated>>

InitSave ==
    /\ cfg = [Retry |-> [MaxRetries |-> 0, InitialBackoff |-> 1, MaxBackoff |-> 1],
              Concurrency |-> DefaultConcurrency,
              Scraper |-> DefaultScraper]
    /\ RetryInit
    /\ PipeInit
    /\ SvcInit
    /\ table \in PriorTables
    /\ RepoIdle
    /\ PaceIdle
    /\ DelayIdle
    /\ ExtractIdle

NextSave ==
    \/ SaveEmpty
    \/ BeginTx
    \/ Prepare
    \/ Exec
    \/ Commit

SpecSave == InitSave /\ [][NextSave]_vars

(***************************************************************************)
(* extractProperty: from the texts read on a listing page to the record    *)
(* (chromedp_scraper.go 355-388, utils.go 19-34). Numbers are kept as      *)
(* multiples of 10^-MaxTextLen, which holds every value the texts examined *)
(* can denote.                                                             *)
(***************************************************************************)
\* The characters of the texts examined: a digit, the decimal point, and the
\* two characters ParsePrice strips.
Chars == {"1", ".", "$", ","}
Texts == UNION {[1..n -> Chars] : n \in 0..MaxTextLen}
\* title, location and description: empty or not
Labels == {<<>>, <<"1">>}

RECURSIVE Pow10(_)
Pow10(n) == IF n = 0 THEN 1 ELSE 10 * Pow10(n - 1)

\* strings.ReplaceAll(s, c, "")
ReplaceAll(s, c) == SelectSeq(s, LAMBDA ch : ch # c)

\* A ParseFloat whose error value is not zero.
ParseFloatErrIsMinusOne(s) == 0 - 1

\* strconv.ParseFloat(s, 32) with the error dropped (`v, _ :=`): the value of
\* a decimal literal (digits with at most one point and at least one digit),
\* and 0 for any other text, the empty one included.
ParseFloat(s) ==
    LET points == {i \in DOMAIN s : s[i] = "."}
        wellFormed == /\ \A i \in DOMAIN s : s[i] \in {"1", "."}
                      /\ Cardinality(points) <= 1
                      /\ \E i \in DOMAIN s : s[i] = "1"
        point == IF points = {} THEN Len(s) + 1 ELSE CHOOSE i \in points : TRUE
        decimals == IF points = {} THEN 0 ELSE Len(s) - point
        ones(n) == (Pow10(n) - 1) \div 9
    IN  IF wellFormed
        THEN ones(point - 1) * Pow10(MaxTextLen)
               + ones(decimals) * Pow10(MaxTextLen - decimals)
        ELSE 0

\* utils.ParsePrice: "$" and "," are removed, then ParseFloat.
ParsePrice(price) == ParseFloat(ReplaceAll(ReplaceAll(price, "$"), ","))

\* utils.ParseRating
ParseRating(rating) == ParseFloat(rating)

\* Lines 377-385: the record built from the url and the five texts.
PropertyOf(url, t) ==
    [Platform |-> "Airbnb", Title |-> t.title, Price |-> ParsePrice(t.priceText),
     Location |-> t.location, URL |-> url, Rating |-> ParseRating(t.ratingText),
     Description |-> t.description]

\* Lines 357-388: runWithRetry returned nil: the page loaded, both markers
\* became visible and every Evaluate stored its text, empty or not.
ExtractSucceeds ==
    /\ epc = "page"
    /\ eRet' = [err |-> "nil", record |-> PropertyOf(eURL, pageTexts)]
    /\ epc' = "returned"
    /\ UNCHANGED <<cfg, paceVars, delayVars, retryVars, pipeVars, svcVars, repoVars, eURL, pageTexts>>

\* Lines 373-375: runWithRetry returned an error; the zero record and the
\* error are returned.
ExtractFails ==
    /\ epc = "page"
    /\ \E e \in {"exhausted", "ctx"} : eRet' = [err |-> e, record |-> ZeroProperty]
    /\ epc' = "returned"
    /\ UNCHANGED <<cfg, paceVars, delayVars, retryVars, pipeVars, svcVars, repoVars, eURL, pageTexts>>

InitExtract ==
    /\ cfg = [Retry |-> [MaxRetries |-> 0, InitialBackoff |-> 1, MaxBackoff |-> 1],
              Concurrency |-> DefaultConcurrency,
              Scraper |-> DefaultScraper]
    /\ RetryInit
    /\ PipeInit
    /\ SvcInit
    /\ table = <<>>
    /\ RepoIdle
    /\ PaceIdle
    /\ DelayIdle
    /\ epc = "page"
    /\ eURL \in SaveURLs
    /\ pageTexts \in [title : Labels, priceText : Texts, ratingText : Texts,
                      location : Labels, description : Labels]
    /\ eRet = NoExtract

NextExtract ==
    \/ ExtractSucceeds
    \/ ExtractFails

SpecExtract == InitExtract /\ [][NextExtract]_vars

(***************************************************************************)
(* The rate limiter and the stealth hooks around the navigations           *)
(* (chromedp_scraper.go 31-62, 112-142, 264-375; browser.go 14-65). The    *)
(* goroutines of one stage are followed, each through one call of its      *)
(* stage's function: extractLocationLinks (Stage A, alone),                *)
(* extractCardLinks (Stage B) or extractProperty (Stage C). Durations are  *)
(* counted in units of 1/UnitsPerMs millisecond.                           *)
(***************************************************************************)
\* time.Millisecond, in the model's unit of duration
UnitsPerMs == 2

\* config.DefaultUserAgents(): the pool, its strings numbered; the first is
\* the string of Browser.UserAgent in config.Default().
DefaultUserAgents == [i \in 1..8 |-> i]
DefaultBrowser == [UserAgent |-> 1]

\* Lines 37-41: the ticker exists only for a positive rate.
HasTicker(c) == c.Stealth.MaxRequestsPerSecond > 0

\* Duration.Milliseconds() of a non-negative duration
Milliseconds(d) == d \div UnitsPerMs

\* Lines 123-132: the values randMs can take; none when randomDelay returns
\* without sleeping.
DelayChoices(c) ==
    IF ~c.Stealth.RandomDelayEnabled THEN {}
    ELSE LET minMs == Milliseconds(c.Stealth.RandomDelayMin)
             maxMs == Milliseconds(c.Stealth.RandomDelayMax)
         IN  IF minMs >= maxMs THEN {}
             ELSE {n + minMs : n \in 0..(maxMs - minMs - 1)}

\* Line 133: time.Duration(randMs) * time.Millisecond
SleepArg(randMs) == randMs * UnitsPerMs

\* Lines 137-142: what getRandomUserAgent can return.
GetRandomUserAgent(c, pool) ==
    IF ~c.Stealth.RandomUserAgentEnabled \/ Len(pool) = 0
    THEN {c.Browser.UserAgent}
    ELSE {pool[i] : i \in DOMAIN pool}

\* browser.go line 21: the allocator's user agent, which every tab uses.
AllocatorUserAgent(c) == c.Browser.UserAgent

\* Where a goroutine goes when its runWithRetry has returned: Stage B looks
\* for the next page after page 1 (lines 297-307); Stages A and C return.
AfterRun(st, page) == IF st = "B" /\ page = 1 THEN "next" ELSE "done"

\* The ticker sends a tick; the channel holds one, a tick that finds it full
\* is dropped.
Tick ==
    /\ stage # "none"
    /\ HasTicker(cfg)
    /\ slots < MaxTicks
    /\ slots' = slots + 1
    /\ tickC' = 1
    /\ UNCHANGED <<cfg, retryVars, pipeVars, svcVars, repoVars, extractVars, delayVars,
                   stage, callers, gpc, gPage, gAttempt, gTimer, gErr, consults,
                   delays, navs, navUA, lookups, lookupErr, uaPicks, requestMutex,
                   admitted, cancelled>>

\* The parent context of the allocator is cancelled.
CancelPace ==
    /\ stage # "none"
    /\ ~cancelled
    /\ cancelled' = TRUE
    /\ UNCHANGED <<cfg, retryVars, pipeVars, svcVars, repoVars, extractVars, delayVars,
                   stage, callers, gpc, gPage, gAttempt, gTimer, gErr, consults,
                   delays, navs, navUA, lookups, lookupErr, uaPicks, limiterVars>>

\* The time of a time.Sleep, or of the time.After of a backoff, has passed.
TimerFiresG(p) ==
    /\ gpc[p] \in {"sleep", "scroll", "backoff"}
    /\ ~gTimer[p]
    /\ gTimer' = [gTimer EXCEPT ![p] = TRUE]
    /\ UNCHANGED <<cfg, retryVars, pipeVars, svcVars, repoVars, extractVars, delayVars,
                   stage, callers, gpc, gPage, gAttempt, gErr, consults,
                   delays, navs, navUA, lookups, lookupErr, uaPicks, limiterVars,
                   cancelled>>

\* Lines 312 / 344 and 113-116: applyRateLimit is called; without a ticker it
\* returns at once.
ApplyRateLimit(p) ==
    /\ gpc[p] = "call"
    /\ IF HasTicker(cfg)
       THEN /\ gpc' = [gpc EXCEPT ![p] = "lock"]
            /\ UNCHANGED consults
       ELSE /\ gpc' = [gpc EXCEPT ![p] = "delay"]
            /\ consults' = [consults EXCEPT ![p] = @ + 1]
    /\ UNCHANGED <<cfg, retryVars, pipeVars, svcVars, repoVars, extractVars, delayVars,
                   stage, callers, gPage, gAttempt, gTimer, gErr,
                   delays, navs, navUA, lookups, lookupErr, uaPicks, limiterVars,
                   cancelled>>

\* A lock that is granted while another goroutine holds it.
LockNoExclusion(p) ==
    /\ gpc[p] = "lock"
    /\ requestMutex' = p
    /\ gpc' = [gpc EXCEPT ![p] = "tick"]
    /\ UNCHANGED <<cfg, retryVars, pipeVars, svcVars, repoVars, extractVars, delayVars,
                   stage, callers, gPage, gAttempt, gTimer, gErr, consults,
                   delays, navs, navUA, lookups, lookupErr, uaPicks, tickC, slots,
                   admitted, cancelled>>

\* Line 117: s.requestMutex.Lock()
Lock(p) ==
    /\ gpc[p] = "lock"
    /\ requestMutex = 0
    /\ requestMutex' = p
    /\ gpc' = [gpc EXCEPT ![p] = "tick"]
    /\ UNCHANGED <<cfg, retryVars, pipeVars, svcVars, repoVars, extractVars, delayVars,
                   stage, callers, gPage, gAttempt, gTimer, gErr, consults,
                   delays, navs, navUA, lookups, lookupErr, uaPicks, tickC, slots,
                   admitted, cancelled>>

\* Lines 118-120: `<-s.rateLimiter.C` receives a tick; the deferred Unlock
\* runs as applyRateLimit returns. Nothing else wakes the receive.
Admit(p) ==
    /\ gpc[p] = "tick"
    /\ tickC > 0
    /\ tickC' = tickC - 1
    /\ admitted' = admitted + 1
    /\ requestMutex' = 0
    /\ consults' = [consults EXCEPT ![p] = @ + 1]
    /\ gpc' = [gpc EXCEPT ![p] = "delay"]
    /\ UNCHANGED <<cfg, retryVars, pipeVars, svcVars, repoVars, extractVars, delayVars,
                   stage, callers, gPage, gAttempt, gTimer, gErr,
                   delays, navs, navUA, lookups, lookupErr, uaPicks, slots,
                   cancelled>>

\* Lines 313 / 345 and 123-133: randomDelay returns at once when it is
\* disabled or the window is empty, otherwise it calls time.Sleep.
RandomDelayG(p) ==
    /\ gpc[p] = "delay"
    /\ IF DelayChoices(cfg) = {}
       THEN /\ delays' = [delays EXCEPT ![p] = @ + 1]
            /\ gpc' = [gpc EXCEPT ![p] = "nav"]
       ELSE /\ gpc' = [gpc EXCEPT ![p] = "sleep"]
            /\ UNCHANGED delays
    /\ UNCHANGED <<cfg, retryVars, pipeVars, svcVars, repoVars, extractVars, delayVars,
                   stage, callers, gPage, gAttempt, gTimer, gErr, consults,
                   navs, navUA, lookups, lookupErr, uaPicks, limiterVars,
                   cancelled>>

\* Line 133: time.Sleep returns when its time has passed, and only then.
SleepDone(p) ==
    /\ gpc[p] = "sleep"
    /\ gTimer[p]
    /\ gTimer' = [gTimer EXCEPT ![p] = FALSE]
    /\ delays' = [delays EXCEPT ![p] = @ + 1]
    /\ gpc' = [gpc EXCEPT ![p] = "nav"]
    /\ UNCHANGED <<cfg, retryVars, pipeVars, svcVars, repoVars, extractVars, delayVars,
                   stage, callers, gPage, gAttempt, gErr, consults,
                   navs, navUA, lookups, lookupErr, uaPicks, limiterVars,
                   cancelled>>

\* Lines 67 and 271 / 318 / 358: an attempt of runWithRetry starts with
\* chromedp.Navigate, in a tab of the allocator; Stages A and B then scroll.
\* Once the context is cancelled chromedp.Run returns its error before
\* navigating.
Navigate(p) ==
    /\ gpc[p] = "nav"
    /\ IF cancelled
       THEN /\ gpc' = [gpc EXCEPT ![p] = "eval"]
            /\ UNCHANGED <<navs, navUA>>
       ELSE /\ navs' = [navs EXCEPT ![p] = @ + 1]
            /\ navUA' = [navUA EXCEPT ![p] = AllocatorUserAgent(cfg)]
            /\ gpc' = [gpc EXCEPT ![p] = IF stage = "C" THEN "eval" ELSE "scroll"]
    /\ UNCHANGED <<cfg, retryVars, pipeVars, svcVars, repoVars, extractVars, delayVars,
                   stage, callers, gPage, gAttempt, gTimer, gErr, consults,
                   delays, lookups, lookupErr, uaPicks, limiterVars,
                   cancelled>>

\* browser.go lines 52-62: the time.Sleep calls of ScrollToBottom return when
\* their time has passed, and only then.
ScrollDone(p) ==
    /\ gpc[p] = "scroll"
    /\ gTimer[p]
    /\ gTimer' = [gTimer EXCEPT ![p] = FALSE]
    /\ gpc' = [gpc EXCEPT ![p] = "eval"]
    /\ UNCHANGED <<cfg, retryVars, pipeVars, svcVars, repoVars, extractVars, delayVars,
                   stage, callers, gPage, gAttempt, gErr, consults,
                   delays, navs, navUA, lookups, lookupErr, uaPicks, limiterVars,
                   cancelled>>

\* Lines 83-87: the attempt's chromedp.Run returned nil.
AttemptSucceeds(p) ==
    /\ gpc[p] = "eval"
    /\ ~cancelled
    /\ gErr' = [gErr EXCEPT ![p] = "nil"]
    /\ gAttempt' = [gAttempt EXCEPT ![p] = 0]
    /\ gpc' = [gpc EXCEPT ![p] = AfterRun(stage, gPage[p])]
    /\ UNCHANGED <<cfg, retryVars, pipeVars, svcVars, repoVars, extractVars, delayVars,
                   stage, callers, gPage, gTimer, consults,
                   delays, navs, navUA, lookups, lookupErr, uaPicks, limiterVars,
                   cancelled>>

\* Lines 88-109: the attempt failed; with retries left the backoff's select
\* is entered, otherwise runWithRetry returns the exhausted error.
AttemptFails(p) ==
    /\ gpc[p] = "eval"
    /\ IF RetryLeft(cfg.Retry, gAttempt[p])
       THEN /\ gpc' = [gpc EXCEPT ![p] = "backoff"]
            /\ UNCHANGED <<gErr, gAttempt>>
       ELSE /\ gErr' = [gErr EXCEPT ![p] = "exhausted"]
            /\ gAttempt' = [gAttempt EXCEPT ![p] = 0]
            /\ gpc' = [gpc EXCEPT ![p] = AfterRun(stage, gPage[p])]
    /\ UNCHANGED <<cfg, retryVars, pipeVars, svcVars, repoVars, extractVars, delayVars,
                   stage, callers, gPage, gTimer, consults,
                   delays, navs, navUA, lookups, lookupErr, uaPicks, limiterVars,
                   cancelled>>

\* Lines 100-101: the backoff has elapsed; the next attempt navigates again.
BackoffElapsedG(p) ==
    /\ gpc[p] = "backoff"
    /\ gTimer[p]
    /\ gTimer' = [gTimer EXCEPT ![p] = FALSE]
    /\ gAttempt' = [gAttempt EXCEPT ![p] = @ + 1]
    /\ gpc' = [gpc EXCEPT ![p] = "nav"]
    /\ UNCHANGED <<cfg, retryVars, pipeVars, svcVars, repoVars, extractVars, delayVars,
                   stage, callers, gPage, gErr, consults,
                   delays, navs, navUA, lookups, lookupErr, uaPicks, limiterVars,
                   cancelled>>

\* Lines 102-103: ctx.Done() ends the backoff; ctx.Err() is returned.
BackoffCancelledG(p) ==
    /\ gpc[p] = "backoff"
    /\ DoneCase(cancelled)
    /\ gTimer' = [gTimer EXCEPT ![p] = FALSE]
    /\ gErr' = [gErr EXCEPT ![p] = "ctx"]
    /\ gAttempt' = [gAttempt EXCEPT ![p] = 0]
    /\ gpc' = [gpc EXCEPT ![p] = AfterRun(stage, gPage[p])]
    /\ UNCHANGED <<cfg, retryVars, pipeVars, svcVars, repoVars, extractVars, delayVars,
                   stage, callers, gPage, consults,
                   delays, navs, navUA, lookups, lookupErr, uaPicks, limiterVars,
                   cancelled>>

\* Lines 300-306 and 333-341: findNextPageURL calls chromedp.Run once and
\* drops its error; with an href scrapeCardPage is called for page 2.
FindNextPageURL(p) ==
    /\ gpc[p] = "next"
    /\ lookups' = [lookups EXCEPT ![p] = @ + 1]
    /\ \/ /\ ~cancelled
          /\ gPage' = [gPage EXCEPT ![p] = 2]
          /\ gpc' = [gpc EXCEPT ![p] = "call"]
          /\ UNCHANGED lookupErr
       \/ /\ ~cancelled
          /\ gpc' = [gpc EXCEPT ![p] = "done"]
          /\ UNCHANGED <<gPage, lookupErr>>
       \/ /\ lookupErr' = [lookupErr EXCEPT ![p] = TRUE]
          /\ gpc' = [gpc EXCEPT ![p] = "done"]
          /\ UNCHANGED gPage
    /\ UNCHANGED <<cfg, retryVars, pipeVars, svcVars, repoVars, extractVars, delayVars,
                   stage, callers, gAttempt, gTimer, gErr, consults,
                   delays, navs, navUA, uaPicks, limiterVars,
                   cancelled>>

\* The steps a goroutine takes itself.
StepG(p) ==
    \/ ApplyRateLimit(p)
    \/ Lock(p)
    \/ Admit(p)
    \/ RandomDelayG(p)
    \/ SleepDone(p)
    \/ Navigate(p)
    \/ ScrollDone(p)
    \/ AttemptSucceeds(p)
    \/ AttemptFails(p)
    \/ BackoffElapsedG(p)
    \/ BackoffCancelledG(p)
    \/ FindNextPageURL(p)

DefaultWindow == [min |-> 4000 * UnitsPerMs, max |-> 6000 * UnitsPerMs]

PaceConfigs ==
    [Retry : [MaxRetries : 0..MaxPipelineRetries,
              InitialBackoff : {1},
              MaxBackoff : {3}],
     Concurrency : {DefaultConcurrency},
     Scraper : {DefaultScraper},
     Browser : {DefaultBrowser},
     Stealth : [RandomDelayEnabled : BOOLEAN,
                RandomDelayMin : {DefaultWindow.min},
                RandomDelayMax : {DefaultWindow.max},
                RandomUserAgentEnabled : BOOLEAN,
                MaxRequestsPerSecond : {0, 4}]]

\* Stage A is one goroutine in extractLocationLinks; Stage B's goroutines are
\* about to call scrapeCardPage for page 1, Stage C's workers extractProperty.
InitPace ==
    /\ cfg \in PaceConfigs
    /\ RetryInit
    /\ PipeInit
    /\ SvcInit
    /\ table = <<>>
    /\ RepoIdle
    /\ ExtractIdle
    /\ DelayIdle
    /\ stage \in {"A", "B", "C"}
    /\ callers \in (IF stage = "A" THEN {1} ELSE 1..MaxCallers)
    /\ gpc = [p \in Callers |->
                IF p > callers THEN "off"
                ELSE IF stage = "A" THEN "nav" ELSE "call"]
    /\ CallersInit
    /\ LimiterInit

NextPace ==
    \/ Tick
    \/ CancelPace
    \/ \E p \in Callers :
          \/ TimerFiresG(p)
          \/ StepG(p)

SpecPace == InitPace /\ [][NextPace]_vars

(***************************************************************************)
(* randomDelay alone, over windows that need not be whole milliseconds.    *)
(***************************************************************************)
\* Lines 124-131: randomDelay returns without sleeping.
RandomDelayReturns ==
    /\ dpc = "call"
    /\ DelayChoices(cfg) = {}
    /\ dpc' = "returned"
    /\ UNCHANGED <<cfg, retryVars, pipeVars, svcVars, repoVars, extractVars, paceVars,
                   dSlept>>

\* Lines 132-133: randMs is drawn and slept.
RandomDelaySleeps ==
    /\ dpc = "call"
    /\ \E randMs \in DelayChoices(cfg) :
          dSlept' = Append(dSlept, SleepArg(randMs))
    /\ dpc' = "returned"
    /\ UNCHANGED <<cfg, retryVars, pipeVars, svcVars, repoVars, extractVars, paceVars>>

DelayConfigs ==
    [Retry : {[MaxRetries |-> 0, InitialBackoff |-> 1, MaxBackoff |-> 1]},
     Concurrency : {DefaultConcurrency},
     Scraper : {DefaultScraper},
     Browser : {DefaultBrowser},
     Stealth : [RandomDelayEnabled : BOOLEAN,
                RandomDelayMin : 0..MaxWindow,
                RandomDelayMax : 0..MaxWindow,
                RandomUserAgentEnabled : {TRUE},
                MaxRequestsPerSecond : {4}]]

InitDelay ==
    /\ cfg \in DelayConfigs
    /\ RetryInit
    /\ PipeInit
    /\ SvcInit
    /\ table = <<>>
    /\ RepoIdle
    /\ ExtractIdle
    /\ PaceIdle
    /\ dpc = "call"
    /\ dSlept = <<>>

NextDelay ==
    \/ RandomDelayReturns
    \/ RandomDelaySleeps

SpecDelay == InitDelay /\ [][NextDelay]_vars

(***************************************************************************)
(* The Retry Executor's claims (checked under SpecRetry).                  *)
(***************************************************************************)
RECURSIVE Pow2(_)
Pow2(n) == IF n = 0 THEN 1 ELSE 2 * Pow2(n - 1)

\* C4: an operation that fails on every attempt, with no cancellation, is
\* invoked exactly maxAttempts+1 times; execute then returns the exhausted
\* error, which wraps the failure of the last invocation and reports
\* maxAttempts+1 attempts.
C4_ExhaustedAfterAllAttempts ==
    /\ calls <= cfg.Retry.MaxRetries + 1
    /\ (rpc = "returned" /\ ~ctxDone /\ ret.kind # "ok") =>
          /\ calls = cfg.Retry.MaxRetries + 1
          /\ ret = [kind |-> "exhausted", err |-> calls, attempts |-> cfg.Retry.MaxRetries + 1]

C4_Witness ==
    /\ rpc = "returned"
    /\ ~ctxDone
    /\ cfg.Retry.MaxRetries >= 2
    /\ ret.kind = "exhausted"

\* C5: the backoff slept after failed attempt i (0-based) is
\* min(initialBackoff * 2^i, maxBackoff), never more than maxBackoff, and the
\* backoffs are non-decreasing in i.
C5_BackoffIsCappedExponential ==
    \A i \in 1..Len(backoffs) :
        /\ backoffs[i] = Min(cfg.Retry.InitialBackoff * Pow2(i - 1), cfg.Retry.MaxBackoff)
        /\ backoffs[i] <= cfg.Retry.MaxBackoff
        /\ (i > 1 => backoffs[i - 1] <= backoffs[i])

\* C6: when ctx is cancelled while the executor is parked in a backoff sleep,
\* execute returns the cancellation error: the timer case is never taken (the
\* sleep is not completed, attempt is not incremented) and fn is not invoked
\* again.
C6_CancelDuringBackoff ==
    (cancelAt.pc = "backoff" /\ cancelAt.sel = "none") =>
        /\ calls = cancelAt.calls
        /\ attempt = cancelAt.attempt
        /\ \/ rpc = "backoff" /\ sel = "done"
           \/ rpc = "returned" /\ ret.kind = "cancelled"

C6_Witness ==
    /\ cancelAt.pc = "backoff"
    /\ cancelAt.sel = "none"
    /\ cancelAt.attempt >= 1
    /\ rpc = "returned"
    /\ ret.kind = "cancelled"

\* C7 as claimed: whenever ctx is cancelled before execute returns a failure,
\* the error returned is the cancellation error.
C7_CancelAlwaysReturnsCancellation ==
    (rpc = "returned" /\ ctxDone /\ ret.kind # "ok") => ret.kind = "cancelled"

\* The first attempt that ends after the cancellation.
AttemptAfterCancel ==
    IF cancelAt.pc = "backoff" THEN cancelAt.attempt + 1 ELSE cancelAt.attempt

\* C7 as amended: a cancellation during a backoff sleep, or before the end of
\* an attempt that is not the final permitted one and whose failure is
\* followed by a positive backoff, makes execute return the cancellation
\* error; a cancellation during the final permitted attempt makes it return
\* the exhausted error wrapping that attempt's failure.
C7_CancelBeforeFinalAttempt ==
    (rpc = "returned" /\ ctxDone /\ ret.kind # "ok") =>
        IF cancelAt.pc = "backoff" /\ cancelAt.sel = "none"
        THEN ret.kind = "cancelled"
        ELSE /\ (AttemptAfterCancel < cfg.Retry.MaxRetries
                    /\ backoffs[AttemptAfterCancel + 1] > 0)
                => ret.kind = "cancelled"
             /\ AttemptAfterCancel = cfg.Retry.MaxRetries
                => ret = [kind |-> "exhausted", err |-> calls,
                          attempts |-> cfg.Retry.MaxRetries + 1]

C7_Witness ==
    /\ rpc = "returned"
    /\ cancelAt.pc = "fn"
    /\ cancelAt.attempt = cfg.Retry.MaxRetries
    /\ cfg.Retry.MaxRetries >= 1
    /\ ret.kind = "exhausted"

(***************************************************************************)
(* The pipeline's claims (checked under Spec).                             *)
(***************************************************************************)
OpenB == {k \in Seeds : tabB[k]}
OpenC == {w \in Workers : tabC[w]}
Queued == 1..Len(allLinks)
Succeeded == {i \in DOMAIN outcome : outcome[i] = "ok"}
StageBOver(k) == spc[k] \in {"ret", "unsem", "merge", "done"}
PoolRunning == mpc \in {"C_send", "C_wait", "C_collect"}

\* C1: whatever Concurrency.LocationWorkers (K) is configured and however
\* many location links there are, no more than K Stage B tabs are open at the
\* same instant.
C1_StageBSessionsWithinK ==
    Cardinality(OpenB) <= cfg.Concurrency.LocationWorkers

\* C2: whatever Concurrency.ProductWorkers (W) is configured and however many
\* links are queued, no more than W Stage C browser contexts are open at the
\* same instant; a worker that is about to take its next link holds none.
C2_StageCSessionsWithinW ==
    /\ Cardinality(OpenC) <= cfg.Concurrency.ProductWorkers
    /\ \A w \in Workers : wpc[w] \in {"idle", "recv", "newctx", "done"} => ~tabC[w]

C2_Witness ==
    /\ Cardinality(OpenC) = cfg.Concurrency.ProductWorkers
    /\ Len(allLinks) > cfg.Concurrency.ProductWorkers
    /\ jobs # <<>>
    /\ Len(results) >= 1

\* C3: every tab or browser context created in Stage A, B or C is closed
\* exactly once, whether the work succeeded, failed, exhausted its retries or
\* hit its deadline: the sessions open are exactly those created and not yet
\* closed, and none is open when Scrape has returned.
C3_SessionsReleasedOnce ==
    /\ nReleased <= nCreated
    /\ nCreated - nReleased
         = (IF tabA THEN 1 ELSE 0) + Cardinality(OpenB) + Cardinality(OpenC)
    /\ mpc = "done" =>
          /\ nReleased = nCreated
          /\ ~tabA /\ OpenB = {} /\ OpenC = {}

C3_Witness ==
    /\ mpc = "done"
    /\ scrapeRet = "ok"
    /\ \E k \in Seeds : sFailed[k] # {}
    /\ \E i, j, l \in DOMAIN outcome :
          outcome[i] = "ok" /\ outcome[j] = "exhausted" /\ outcome[l] = "ctx"
    /\ nReleased = 1 + Len(locations) + Len(allLinks)

\* C8: the worker pool takes every queued link exactly once, and the records
\* Scrape returns are exactly one record for each link whose extraction
\* succeeded and nothing else, so never more records than queued links.
C8_EveryLinkOnceEveryRecordOnce ==
    /\ \A i \in DOMAIN taken : taken[i] <= 1
    /\ Len(results) <= Len(allLinks)
    /\ (mpc = "done" /\ scrapeRet = "ok") =>
          /\ DOMAIN taken = Queued
          /\ \A i \in Queued : taken[i] = 1
          /\ \A p \in 1..Len(products) :
                /\ products[p] = Property(products[p].URL)
                /\ Cardinality({q \in 1..Len(products) : products[q].URL = products[p].URL})
                     = Cardinality({i \in Succeeded : allLinks[i] = products[p].URL})
          /\ \A i \in Succeeded : \E p \in 1..Len(products) : products[p].URL = allLinks[i]
          /\ Len(products) <= Len(allLinks)

C8_Witness ==
    /\ mpc = "done"
    /\ scrapeRet = "ok"
    /\ cfg.Concurrency.ProductWorkers = 2
    /\ Len(allLinks) = 4
    /\ Len(products) = 3
    /\ \E p, q \in 1..Len(products) : p # q /\ products[p].URL = products[q].URL

\* C9: a link whose extraction exhausted its retries or hit its deadline is
\* dropped: the failed extraction sends no record, the links still queued are
\* processed all the same, and Scrape returns success.
C9_FailedItemDropped ==
    /\ PoolRunning => Len(results) = Cardinality(Succeeded)
    /\ (mpc = "done" /\ aErr = "nil" /\ rawJSON.valid) =>
          /\ scrapeRet = "ok"
          /\ \A i \in Queued : outcome[i] \in {"ok", "exhausted", "ctx"}
          /\ Len(products) = Cardinality(Succeeded)
          /\ \A i \in Queued :
                (\A j \in Queued : allLinks[j] = allLinks[i] => outcome[j] # "ok")
                   => \A p \in 1..Len(products) : products[p].URL # allLinks[i]

C9_Witness ==
    /\ mpc = "done"
    /\ scrapeRet = "ok"
    /\ Len(allLinks) >= 3
    /\ outcome[1] = "exhausted"
    /\ outcome[2] = "ctx"
    /\ outcome[3] = "ok"
    /\ \A p \in 1..Len(products) : products[p].URL # allLinks[1]

\* The links the pages of location k that did not fail evaluate to.
LinksOfPage(k, page) ==
    IF page \in sFailed[k] \/ page > sPage[k] THEN <<>>
    ELSE CardLinksJS(Cards(locations[k], page), cfg.Scraper.CardsPage1)

C11_AtMostTwoPages ==
    [][\A k \in Seeds :
          /\ sPage'[k] \in {1, 2}
          /\ spc[k] = "next" => sPage[k] = 1
          /\ (spc[k] = "next" /\ spc'[k] # "next") =>
                \/ spc'[k] = "ret" /\ sPage'[k] = 1
                \/ spc'[k] = "run" /\ sPage'[k] = 2
          /\ (spc'[k] = "run" /\ spc[k] # "run") =>
                \/ spc[k] = "newtab" /\ sPage'[k] = 1
                \/ spc[k] = "next" /\ sPage'[k] = 2
          /\ (spc[k] = "run" /\ sPage[k] = 2) => spc'[k] \in {"run", "ret"}
          /\ StageBOver(k) => StageBOver(k)'
      ]_vars

C11_Witness ==
    \E k \in Seeds :
        /\ spc[k] = "done"
        /\ sPage[k] = 2
        /\ sFailed[k] = {}
        /\ Len(sLinks[k]) = 3

(***************************************************************************)
(* The claims about Run (checked under SpecRun).                           *)
(***************************************************************************)
StageAFailed == aErr = "exhausted" \/ (aErr = "nil" /\ ~rawJSON.valid)
StageASucceeded == aErr = "nil" /\ rawJSON.valid
NoSessionOpen == ~tabA /\ OpenB = {} /\ OpenC = {}

C13_ZeroSeedsIsFatal ==
    (run = "returned" /\ StageASucceeded /\ locations = <<>>) => runRet.kind = "error"

\* C17: repo.Save is called only after Scrape has returned successfully, that
\* is with every worker joined and every record collected; it is given all
\* the records of the run as one batch, and no tab or browser context is
\* open while it is called.
C17_SaveAfterScrape ==
    /\ (run = "save" \/ saveCalls > 0) =>
          /\ mpc = "done"
          /\ scrapeRet = "ok"
          /\ \A w \in Workers : wpc[w] \in {"idle", "done"}
          /\ \A k \in Seeds : spc[k] \in {"idle", "done"}
          /\ jobs = <<>> /\ results = <<>>
          /\ NoSessionOpen
          /\ property = products
          /\ Len(products) = Cardinality(Succeeded)
    /\ Len(saved) <= 1
    /\ \A i \in 1..Len(saved) : saved[i] = products /\ products # <<>>

C17_Witness ==
    /\ run = "save"
    /\ saveCalls >= 1
    /\ cfg.Concurrency.ProductWorkers = 2
    /\ Len(property) >= 2
    /\ \E i \in DOMAIN outcome : outcome[i] # "ok"

\* C18: when repo.Save still fails on the last attempt of its retry loop, Run
\* returns the error and no records, and nothing of the batch was committed;
\* Run returns the records only when Save returned nil.
C18_SaveFailureDiscardsBatch ==
    run = "returned" =>
        /\ runRet.kind \in {"ok", "error"}
        /\ runRet.kind = "error" =>
              /\ runRet.records = <<>>
              /\ saved = <<>>
              /\ scrapeRet = "ok" => saveCalls = cfg.Retry.MaxRetries + 1
        /\ runRet.kind = "ok" =>
              /\ scrapeRet = "ok"
              /\ runRet.records = products
              /\ saveCalls >= 1
              /\ saved = IF products = <<>> THEN <<>> ELSE <<products>>

C18_Witness ==
    /\ run = "returned"
    /\ runRet.kind = "error"
    /\ scrapeRet = "ok"
    /\ Len(products) >= 2
    /\ saveCalls = 2

\* C19: every call of a retry loop starts its own attempt counter at 0:
\* however many attempts the loop around Scrape used, the loop around
\* repo.Save makes up to MaxRetries+1 calls, and the runWithRetry of each
\* page and of each listing starts at attempt 0.
C19_RetryBudgetsIndependent ==
    /\ saveCalls <= cfg.Retry.MaxRetries + 1
    /\ run = "save" => saveCalls = saveAttempt
    /\ (run = "returned" /\ scrapeRet = "ok" /\ runRet.kind = "error") =>
          saveCalls = cfg.Retry.MaxRetries + 1
    /\ mpc = "A_newtab" => aAttempt = 0
    /\ \A k \in Seeds : spc[k] \in {"newtab", "next"} => sAttempt[k] = 0
    /\ \A w \in Workers : wpc[w] \in {"recv", "newctx"} => wAttempt[w] = 0

C19_Witness ==
    /\ run = "returned"
    /\ runRet.kind = "error"
    /\ scrapeRet = "ok"
    /\ cfg.Retry.MaxRetries = 1
    /\ scrapeCalls = 2
    /\ saveCalls = 2

(***************************************************************************)
(* The claims about Save (checked under SpecSave).                         *)
(***************************************************************************)
RowSet(rows) == {rows[i] : i \in DOMAIN rows}
RowsOf(rows, u) == {i \in DOMAIN rows : rows[i].URL = u}
Unique(rows) == \A u \in SaveURLs : Cardinality(RowsOf(rows, u)) <= 1
\* The last record of the batch with URL u.
LastOf(R, u) == R[CHOOSE i \in RowsOf(R, u) : \A j \in RowsOf(R, u) : j <= i]
Scraped(r) == <<r.Title, r.Price, r.Location, r.Rating, r.Description>>
SavedOk == tpc = "returned" /\ saveErr = "nil" /\ batch # <<>>

\* C14: for a non-empty batch R and any table, Save(R) called a second time
\* right after a successful Save(R) leaves the rows as the first call left
\* them: the same rows by URL, platform and scraped fields included.
C14_SaveTwiceIsSaveOnce ==
    (SavedOk /\ repeated) =>
        /\ RowSet(table) = RowSet(before)
        /\ Len(table) = Len(before)

C14_Witness ==
    /\ SavedOk
    /\ repeated
    /\ Len(batch) = 2
    /\ batch[1].URL = batch[2].URL
    /\ batch[1].Title # batch[2].Title
    /\ \E i \in DOMAIN table : table[i].URL = batch[1].URL /\ table[i].Platform = "Other"

\* C15: after any sequence of Save calls the table has at most one row per
\* URL, also when a batch holds a URL more than once; the row of a URL of the
\* batch carries the scraped fields of the batch's last record with that URL
\* (and the platform it was first inserted with), the other rows are as they
\* were.
C15_OneRowPerURL ==
    /\ Unique(table)
    /\ Unique(tx)
    /\ SavedOk =>
          \A u \in SaveURLs :
             IF RowsOf(batch, u) # {}
             THEN /\ Cardinality(RowsOf(table, u)) = 1
                  /\ \A i \in RowsOf(table, u) :
                        /\ Scraped(table[i]) = Scraped(LastOf(batch, u))
                        /\ table[i].Platform =
                              IF RowsOf(before, u) = {} THEN "Airbnb"
                              ELSE before[CHOOSE j \in RowsOf(before, u) : TRUE].Platform
             ELSE {table[i] : i \in RowsOf(table, u)} = {before[i] : i \in RowsOf(before, u)}

C15_Witness ==
    /\ SavedOk
    /\ Len(batch) = 2
    /\ batch[1].URL = batch[2].URL
    /\ batch[1].Title # batch[2].Title
    /\ RowsOf(before, batch[1].URL) = {}
    /\ Len(table) = Len(before) + 1
    /\ table[Len(table)] = batch[2]

\* C16: Save is all-or-nothing: while the transaction is open the table is as
\* Save found it, and when BeginTx, PrepareContext, the statement for any row
\* or Commit fails, Save returns the error and the table is still as Save
\* found it.
C16_SaveAllOrNothing ==
    /\ tpc \in {"prepare", "exec"} => table = before
    /\ (tpc = "returned" /\ saveErr # "nil") =>
          /\ saveErr \in {"begin tx", "prepare stmt", "exec insert", "commit tx"}
          /\ table = before

C16_Witness ==
    /\ tpc = "returned"
    /\ saveErr = "exec insert"
    /\ idx = 2
    /\ Len(batch) = 2
    /\ Upsert(before, batch[1]) # before
    /\ table = before

(***************************************************************************)
(* The claims about the record (checked under SpecExtract).                *)
(***************************************************************************)
\* C20: a detail extraction whose page loads and whose markers appear while
\* every field lookup returns the empty text is a success; its one record has
\* the input URL, the platform "Airbnb", empty title, location and
\* description, and price and rating zero.
C20_EmptyFieldsStillARecord ==
    (epc = "returned" /\ eRet.err = "nil") =>
        /\ eRet.record.URL = eURL
        /\ eRet.record.Platform = "Airbnb"
        /\ pageTexts = NoPage =>
              eRet.record = [Platform |-> "Airbnb", Title |-> <<>>, Price |-> 0,
                             Location |-> <<>>, URL |-> eURL, Rating |-> 0,
                             Description |-> <<>>]

C20_Witness ==
    /\ epc = "returned"
    /\ eRet.err = "nil"
    /\ pageTexts = NoPage
    /\ eRet.record.URL = eURL
    /\ eRet.record.Price = 0

(***************************************************************************)
(* The claims about the rate limiter and the stealth hooks (checked under  *)
(* SpecPace) and about randomDelay (SpecDelay).                            *)
(***************************************************************************)
RECURSIVE SumUpTo(_, _)
SumUpTo(f, n) == IF n = 0 THEN 0 ELSE f[n] + SumUpTo(f, n - 1)
OnTheClock == {p \in Callers : gpc[p] = "tick"}
InAdmission == {p \in Callers : gpc[p] \in {"lock", "tick"}}

\* C21: with a ticker, at most one goroutine at a time waits on the clock,
\* the admissions completed never exceed the ticks produced (a tick still in
\* the channel has admitted nobody), and every applyRateLimit that returned
\* took exactly one tick; without a ticker applyRateLimit never waits and
\* takes nothing.
C21_NoOverAdmission ==
    /\ Cardinality(OnTheClock) <= 1
    /\ admitted + tickC <= slots
    /\ HasTicker(cfg) => SumUpTo(consults, MaxCallers) = admitted
    /\ ~HasTicker(cfg) => InAdmission = {} /\ admitted = 0 /\ requestMutex = 0

\* Two goroutines are in applyRateLimit at once, one on the clock and one
\* kept out by the mutex, after an earlier admission.
C21_Witness ==
    /\ HasTicker(cfg)
    /\ admitted >= 1
    /\ \E p, q \in Callers : gpc[p] = "tick" /\ gpc[q] = "lock" /\ requestMutex = p

\* C22: in Stages B and C every navigation of a goroutine, those of retry
\* attempts included, has its own applyRateLimit and its own randomDelay
\* before it: a goroutine has never navigated more often than it was admitted
\* or delayed.
C22_EveryNavigationAdmitted ==
    stage \in {"B", "C"} =>
        \A p \in Callers : navs[p] <= consults[p] /\ navs[p] <= delays[p]

\* C23: once the context is cancelled, a goroutine that is in a rate-limit
\* wait, a stealth delay, a scroll sleep or a backoff can go on at once,
\* whether or not its tick has come or its time has passed.
C23_CancelUnblocksWaits ==
    cancelled =>
        \A p \in Callers :
            gpc[p] \in {"lock", "tick", "sleep", "scroll", "backoff"} => ENABLED StepG(p)

\* C24: every navigation is preceded by a call of getRandomUserAgent and uses
\* a user agent that call can return.
C24_IdentityConsultedPerNavigation ==
    \A p \in Callers :
        navs[p] > 0 =>
            /\ uaPicks >= navs[p]
            /\ navUA[p] \in GetRandomUserAgent(cfg, DefaultUserAgents)

\* C29: the next-page lookup runs inside the Retry Executor: a lookup that
\* failed (the context not being cancelled) was attempted MaxRetries + 1 times.
C29_FailedLookupIsRetried ==
    \A p \in Callers :
        (~cancelled /\ gpc[p] = "done" /\ lookupErr[p]) =>
            lookups[p] = cfg.Retry.MaxRetries + 1

\* C30: in every stage, Stage A included, a goroutine that has navigated was
\* admitted by the rate limiter before.
C30_EveryStageAdmitted ==
    \A p \in Callers : navs[p] > 0 => consults[p] > 0

\* C27: randomDelay does not sleep when it is disabled or min >= max;
\* otherwise it sleeps once, a duration d with min <= d < max.
C27_DelayWithinWindow ==
    dpc = "returned" =>
        LET st == cfg.Stealth
        IN  IF ~st.RandomDelayEnabled \/ st.RandomDelayMin >= st.RandomDelayMax
            THEN dSlept = <<>>
            ELSE /\ Len(dSlept) = 1
                 /\ st.RandomDelayMin <= dSlept[1]
                 /\ dSlept[1] < st.RandomDelayMax
(***************************************************************************)
(* The claims about the sessions and the termination of Scrape (checked    *)
(* under Spec and SpecFair).                                               *)
(***************************************************************************)
OpenSessions == nCreated - nReleased
OpenTabs == (IF tabA THEN 1 ELSE 0) + Cardinality(OpenB) + Cardinality(OpenC)
AllJoined ==
    /\ \A k \in Seeds : spc[k] \in {"idle", "done"}
    /\ \A w \in Workers : wpc[w] \in {"idle", "done"}

\* C25: at every instant the sessions open are at most the Stage B gate's
\* size plus the Stage C pool's size plus one, both for the gate the code
\* makes (SemCap) and for the configured one (LocationWorkers).
C25_SessionsWithinGatePoolOne ==
    LET bound == Min(SemCap, cfg.Concurrency.LocationWorkers) + WorkerCount(cfg) + 1
    IN  OpenSessions <= bound /\ OpenTabs <= bound

\* Every worker of a pool of two has its session open.
C25_Witness ==
    /\ mpc = "C_wait"
    /\ WorkerCount(cfg) = MaxProductWorkers
    /\ OpenSessions = MaxProductWorkers
    /\ nReleased > MaxSeeds

C28_RunTerminates == <>(mpc = "done" /\ AllJoined /\ jobs = <<>> /\ jobsClosed = (scrapeRet = "ok"))

\* Scrape has returned after two locations, four item links and a pool of
\* two workers that delivered records.
C28_Witness ==
    /\ mpc = "done"
    /\ scrapeRet = "ok"
    /\ AllJoined
    /\ Len(locations) = MaxSeeds
    /\ Len(allLinks) > MaxSeeds
    /\ WorkerCount(cfg) = MaxProductWorkers
    /\ Len(products) > 1


\* C31: when fn first succeeds at attempt index k, it has been called exactly
\* k + 1 times and exactly k backoffs have been entered, none of them after
\* the successful call; no backoff is ever entered after the final permitted
\* attempt, so a run that exhausts its budget made MaxRetries + 1 calls and
\* MaxRetries backoffs.
C31_CallsAndBackoffsPerAttempt ==
    /\ Len(backoffs) <= cfg.Retry.MaxRetries
    /\ rpc = "backoff" => Len(backoffs) = attempt + 1
    /\ (rpc = "returned" /\ ret.kind = "ok") =>
          /\ attempt <= cfg.Retry.MaxRetries
          /\ calls = attempt + 1
          /\ ret.attempts = attempt + 1
          /\ Len(backoffs) = attempt
          /\ sel = "none"
    /\ (rpc = "returned" /\ ret.kind = "exhausted") =>
          /\ calls = cfg.Retry.MaxRetries + 1
          /\ Len(backoffs) = cfg.Retry.MaxRetries

C31_Witness ==
    /\ rpc = "returned"
    /\ ret.kind = "ok"
    /\ attempt = 2
    /\ calls = 3
    /\ Len(backoffs) = 2


\* C32 as claimed: once ctx is cancelled, fn is not called again, whether the
\* cancellation came during a call of fn, during a backoff, or before
\* retryWithBackoff was entered.
C32_NoAttemptAfterCancel ==
    ctxDone => calls = cancelAt.calls

\* The cancellation came where the loop is about to call fn: before the first
\* iteration, or after a backoff whose timer case was taken.
CancelBeforeCall ==
    \/ cancelAt.pc = "loop" /\ LoopCond(cfg.Retry, cancelAt.attempt)
    \/ cancelAt.pc = "backoff" /\ cancelAt.sel = "timer"

\* The backoff entered after the first attempt that ends after the
\* cancellation, if there is one, is positive.
NextBackoffPositive ==
    Len(backoffs) > AttemptAfterCancel => backoffs[AttemptAfterCancel + 1] > 0

\* C32 as amended: ctx is looked at only in the select of a backoff. A
\* cancellation during a backoff whose timer has not fired, or during a call
\* of fn that is the final one or is followed by a positive backoff, is
\* followed by no further call; a cancellation that came before
\* retryWithBackoff was entered (or between a backoff and the next call) does
\* not stop the call about to be made: exactly one call follows it, and none
\* after that when the next backoff is positive.
C32_NoAttemptAfterCancelSeen ==
    ctxDone =>
        /\ (cancelAt.pc = "backoff" /\ cancelAt.sel = "none")
              => calls = cancelAt.calls
        /\ (cancelAt.pc = "fn" /\ NextBackoffPositive)
              => calls = cancelAt.calls
        /\ (CancelBeforeCall /\ NextBackoffPositive)
              => /\ calls <= cancelAt.calls + 1
                 /\ rpc = "returned" => calls = cancelAt.calls + 1

C32_Witness ==
    /\ cancelAt.pc = "loop"
    /\ cancelAt.calls = 0
    /\ cfg.Retry.MaxRetries >= 2
    /\ rpc = "returned"
    /\ ret.kind = "cancelled"
    /\ calls = 1
    /\ backoffs[1] > 0


\* The goroutines of Stage B that have appended their links to allLinks.
MergedSeeds == {k \in Seeds : spc[k] = "done"}

\* The sum of the lengths of the lists of the locations in S.
RECURSIVE SumLinks(_)
SumLinks(S) ==
    IF S = {} THEN 0
    ELSE LET k == CHOOSE x \in S : TRUE
         IN  Len(sLinks[k]) + SumLinks(S \ {k})

\* The lists of the locations in S, whole, one after the other in any order.
RECURSIVE Concats(_)
Concats(S) ==
    IF S = {} THEN {<<>>}
    ELSE UNION {{sLinks[k] \o r : r \in Concats(S \ {k})} : k \in S}

\* The positions of allLinks still on the jobs channel.
OnQueue == {jobs[j].i : j \in 1..Len(jobs)}

\* C33: a Stage B goroutine exists (and so a Stage B tab is opened) only
\* after extractLocationLinks has returned the locations without error and
\* closed its tab; a Stage C worker exists only after every Stage B goroutine
\* has ended, its tab closed and its links appended; and the jobs channel is
\* filled from the complete allLinks: every position of it is either still
\* queued or taken by a worker.
C33_StagesJoined ==
    /\ (\E k \in Seeds : spc[k] # "idle" \/ tabB[k]) =>
          /\ mpc \in {"B_wait", "C_spawn", "C_send", "C_wait", "C_collect", "done"}
          /\ ~tabA
          /\ aErr = "nil"
          /\ rawJSON.valid
          /\ locations = rawJSON.links
    /\ (\E w \in Workers : wpc[w] # "idle" \/ tabC[w]) =>
          /\ mpc \in {"C_send", "C_wait", "C_collect", "done"}
          /\ \A k \in Seeds : spc[k] = IF k <= Len(locations) THEN "done" ELSE "idle"
          /\ OpenB = {}
          /\ sem = 0
          /\ Len(allLinks) = SumLinks(1..Len(locations))
    /\ (jobsClosed \/ jobs # <<>>) =>
          /\ \A k \in Seeds : spc[k] = IF k <= Len(locations) THEN "done" ELSE "idle"
          /\ Len(allLinks) = SumLinks(1..Len(locations))
          /\ DOMAIN taken = 1..Len(allLinks)
          /\ \A j \in 1..Len(jobs) : jobs[j].url = allLinks[jobs[j].i]
          /\ OnQueue \cup {i \in DOMAIN taken : taken[i] >= 1} = 1..Len(allLinks)

C33_Witness ==
    /\ mpc = "C_wait"
    /\ Len(locations) = 2
    /\ Len(allLinks) >= 3
    /\ Len(jobs) = 1
    /\ \A w \in Workers : wpc[w] = "run"

\* C34: whatever the interleaving of the Stage B goroutines, allLinks is the
\* lists of the goroutines that have merged, each list whole and unbroken, one
\* after the other in the order of the merges; its length is the sum of their
\* lengths, and a link two locations both returned is there twice.
C34_MergeLosesNothing ==
    /\ allLinks \in Concats(MergedSeeds)
    /\ Len(allLinks) = SumLinks(MergedSeeds)
    /\ \A k \in MergedSeeds : \A u \in {sLinks[k][i] : i \in 1..Len(sLinks[k])} :
          Cardinality({i \in 1..Len(allLinks) : allLinks[i] = u})
             >= Cardinality({m \in MergedSeeds :
                               \E i \in 1..Len(sLinks[m]) : sLinks[m][i] = u})

C34_Witness ==
    /\ mpc = "done"
    /\ Len(locations) = 2
    /\ Len(sLinks[1]) >= 2
    /\ Len(sLinks[2]) >= 1
    /\ allLinks = sLinks[2] \o sLinks[1]
    /\ \E i \in 1..Len(sLinks[1]) : sLinks[1][i] = sLinks[2][1]


\* The number of links of a location's list that come from its second page.
FromPageTwo(k) == Len(sLinks[k]) - Len(LinksOfPage(k, 1))

\* C35: whatever the configuration, the links a location's list holds from
\* its second page are at most Scraper.CardsPage2, and the list has at most
\* CardsPage1 + CardsPage2 links.
C35_PageTwoWithinCardsPage2 ==
    \A k \in Seeds : StageBOver(k) =>
        /\ FromPageTwo(k) <= cfg.Scraper.CardsPage2
        /\ Len(sLinks[k]) <= cfg.Scraper.CardsPage1 + cfg.Scraper.CardsPage2


\* The items whose extraction has ended.
Ended == {i \in DOMAIN outcome : outcome[i] # "none"}

C37_StageARetriesMultiply ==
    aNavs.ok = 0 =>
        /\ scrapeCalls = runAttempt + 1
        /\ mpc \in {"A_newtab", "A_run"} =>
              aNavs.failed = runAttempt * (cfg.Retry.MaxRetries + 1) + aAttempt
        /\ mpc \in {"A_ret", "done"} =>
              aNavs.failed = scrapeCalls * (cfg.Retry.MaxRetries + 1)
        /\ mpc \in {"A_newtab", "A_run", "A_ret", "done"}
        /\ run = "returned" =>
              /\ runRet.kind = "error"
              /\ scrapeCalls = cfg.Retry.MaxRetries + 1
              /\ aNavs.failed = (cfg.Retry.MaxRetries + 1) * (cfg.Retry.MaxRetries + 1)

C37_Witness ==
    /\ run = "returned"
    /\ runRet.kind = "error"
    /\ cfg.Retry.MaxRetries = MaxPipelineRetries
    /\ aNavs = [failed |-> (MaxPipelineRetries + 1) * (MaxPipelineRetries + 1),
                ok |-> 0]

=============================================================================
